---- MODULE Spec2Model ----
(***************************************************************************)
(* Round engines of stv.vote: the whole-ballot tabulator                   *)
(* (tabulate-stv-cambridge, src/unnamed/part_012) and the fractional       *)
(* tabulator (src/unnamed/part_009).  One behaviour is one call of         *)
(* tabulateSTV or tabulateFractionalSTV: the inputs are drawn in Init, one *)
(* action performs the initial allocation, one action performs one         *)
(* iteration of the round loop, one action builds the returned summary.    *)
(* Fractional vote totals are exact rationals <<n, d>> in lowest terms.    *)
(***************************************************************************)
EXTENDS Integers, Sequences, FiniteSets, TLC

VARIABLES engine, ballots, seats, candidateNames, totalBallotsForQuota,
          quota, candidateMap, candidateStatus, ballotStates,
          candidateBallots, exhaustedBallots, exhaustedVotes, winners,
          rounds, roundNumber, pc, exitReason, candidateVotes, tables

vars == <<engine, ballots, seats, candidateNames, totalBallotsForQuota,
          quota, candidateMap, candidateStatus, ballotStates,
          candidateBallots, exhaustedBallots, exhaustedVotes, winners,
          rounds, roundNumber, pc, exitReason, candidateVotes, tables>>

(***************************************************************************)
(* Bounds of the inputs.                                                   *)
(***************************************************************************)
MaxBallots == 3
MaxSeats == 2
MaxScale == 2
MaxIdentical == 8
MaxOver == 3

Names == {"A", "B", "C"}
\* String.prototype.localeCompare on the names used here
\* the names of the documented scenarios; the names of one contest are only
\* compared with each other
ScenarioNames == {"D", "Alice", "Bob", "Carol"}
NameRank == [n \in Names \cup ScenarioNames |->
               IF n = "A" THEN 1 ELSE IF n = "B" THEN 2 ELSE IF n = "C" THEN 3
               ELSE IF n = "D" THEN 4 ELSE IF n = "Alice" THEN 5
               ELSE IF n = "Bob" THEN 6 ELSE 7]
localeCompare(a, b) == NameRank[a] - NameRank[b]

CandidateLists == { <<"A", "B", "C">>, <<"C", "A", "B">>, <<"B", "A">>, <<"A">> }

\* value of an optional number that was not supplied / not set
NoRound == 0
Null == "null"
\* the Exhausted allocatee "X" of a round record, among the candidate indices
X == -1
Unsupplied == -1

Range(s) == { s[i] : i \in DOMAIN s }
Ids(n) == [i \in 1..n |-> i]
Min(a, b) == IF a < b THEN a ELSE b

\* a ballot's rank sequence: listed or unlisted names, no name twice
Rankings == { r \in UNION { [1..k -> Names] : k \in 1..Cardinality(Names) } :
                \A i, j \in DOMAIN r : i # j => r[i] # r[j] }

RECURSIVE RankKey(_)
RankKey(r) == IF r = <<>> THEN 0 ELSE NameRank[Head(r)] + 4 * RankKey(Tail(r))

\* ballot files are read grouped by rank sequence, in either direction
BallotLists == { b \in UNION { [1..n -> Rankings] : n \in 1..MaxBallots } :
                   \/ \A i \in 1..(Len(b) - 1) : RankKey(b[i]) <= RankKey(b[i + 1])
                   \/ \A i \in 1..(Len(b) - 1) : RankKey(b[i]) >= RankKey(b[i + 1]) }

(***************************************************************************)
(* Array helpers.                                                          *)
(***************************************************************************)
\* Array.prototype.slice(from, to), 0-based, end exclusive
slice(s, from, to) ==
  LET lo == Min(from, Len(s))
      hi == Min(to, Len(s))
  IN  IF hi <= lo THEN <<>> ELSE [i \in 1..(hi - lo) |-> s[lo + i]]

\* Map.set on a Map kept in insertion order, as a sequence of [key, value]
RECURSIVE MapAdd(_, _, _)
MapAdd(m, k, w) ==
  IF m = <<>> THEN << [key |-> k, value |-> w] >>
  ELSE IF Head(m).key = k THEN << [key |-> k, value |-> Head(m).value + w] >> \o Tail(m)
  ELSE << Head(m) >> \o MapAdd(Tail(m), k, w)

StatusOf(cs, c) == IF c \in DOMAIN cs THEN cs[c] ELSE "undefined"

\* the rank a ballot state points at, Null past the end
ChoiceAt(ballot) ==
  IF ballot.currentIndex < Len(ballot.originalRankings)
  THEN ballot.originalRankings[ballot.currentIndex + 1]
  ELSE Null

(***************************************************************************)
(* Exact rational arithmetic for the fractional vote totals.               *)
(***************************************************************************)
RECURSIVE GCD(_, _)
GCD(a, b) == IF b = 0 THEN a ELSE GCD(b, a % b)
Abs(a) == IF a < 0 THEN -a ELSE a
RNorm(n, d) == LET g == GCD(Abs(n), d) IN <<n \div g, d \div g>>
R(n) == <<n, 1>>
RAdd(a, b) == RNorm(a[1] * b[2] + b[1] * a[2], a[2] * b[2])
RSub(a, b) == RNorm(a[1] * b[2] - b[1] * a[2], a[2] * b[2])
RMul(a, b) == RNorm(a[1] * b[1], a[2] * b[2])
RDiv(a, b) == RNorm(a[1] * b[2], a[2] * b[1])
RLt(a, b) == a[1] * b[2] < b[1] * a[2]
RLe(a, b) == a[1] * b[2] <= b[1] * a[2]
RAbs(a) == <<Abs(a[1]), a[2]>>
\* Math.round: the nearest integer, halves up
RRound(a) == (2 * a[1] + a[2]) \div (2 * a[2])

\* Array.prototype.sort with the comparator "key of b minus key of a": stable,
\* descending in the keys k, which run parallel to the elements s
RECURSIVE InsertByKey(_, _)
InsertByKey(x, t) ==
  IF t = <<>> THEN <<x>>
  ELSE IF RLt(Head(t).k, x.k) THEN <<x>> \o t
  ELSE <<Head(t)>> \o InsertByKey(x, Tail(t))

RECURSIVE SortPairs(_)
SortPairs(u) ==
  IF u = <<>> THEN <<>>
  ELSE InsertByKey(u[Len(u)], SortPairs(SubSeq(u, 1, Len(u) - 1)))

SortDesc(s, k) ==
  LET sorted == SortPairs([i \in DOMAIN s |-> [e |-> s[i], k |-> k[i]]])
  IN  [i \in DOMAIN s |-> sorted[i].e]

(***************************************************************************)
(* Whole-ballot engine, src/unnamed/part_012.                              *)
(***************************************************************************)
\* mutant: eliminated candidates are not skipped
RECURSIVE getCurrentChoiceKeepEliminated(_, _)
getCurrentChoiceKeepEliminated(ballot, cs) ==
  IF ballot.currentIndex < Len(ballot.originalRankings)
  THEN IF StatusOf(cs, ChoiceAt(ballot)) \in {"active", "eliminated"}
       THEN ballot
       ELSE getCurrentChoiceKeepEliminated([ballot EXCEPT !.currentIndex = @ + 1], cs)
  ELSE ballot

RECURSIVE getCurrentChoice(_, _)
getCurrentChoice(ballot, cs) ==
  IF ballot.currentIndex < Len(ballot.originalRankings)
  THEN IF StatusOf(cs, ChoiceAt(ballot)) = "active"
       THEN ballot
       ELSE getCurrentChoice([ballot EXCEPT !.currentIndex = @ + 1], cs)
  ELSE ballot

advanceToNextChoice(ballot, cs) ==
  getCurrentChoice([ballot EXCEPT !.currentIndex = @ + 1], cs)

\* mutant: the "+ 1" of the Droop quota forgotten
calculateDroopQuotaFloor(totalBallots, sts) == totalBallots \div (sts + 1)

calculateDroopQuota(totalBallots, sts) == (totalBallots \div (sts + 1)) + 1

\* mutant: the elected candidate keeps its votes
pinToQuotaKeep(votes, q) == votes

\* lines 146, 233 and 288: exhaustedBallots.push(ballot)
pushExhausted(exhausted, id) == Append(exhausted, id)

\* line 254: elected.votes = quota
pinToQuota(votes, q) == q

\* lines 103-134: candidate states, ballot states, empty piles
InitialState(blts, names, q, zero, one) ==
  [ quota |-> q,
    candidateMap |-> [n \in Range(names) |->
        [index |-> (CHOOSE i \in DOMAIN names : names[i] = n) - 1,
         name |-> n, votes |-> zero, status |-> "active",
         roundElected |-> NoRound, roundEliminated |-> NoRound,
         firstRoundVotes |-> zero, transferVotes |-> zero]],
    candidateStatus |-> [n \in Range(names) |-> "active"],
    ballotStates |-> [i \in DOMAIN blts |->
        [originalRankings |-> blts[i], currentIndex |-> 0, weight |-> one]],
    candidateBallots |-> [n \in Range(names) |-> <<>>],
    exhaustedBallots |-> <<>>,
    exhaustedVotes |-> zero,
    winners |-> <<>>,
    rounds |-> <<>>,
    roundNumber |-> 1,
    brk |-> FALSE ]

\* lines 137-148: initial allocation of the first preferences
RECURSIVE initialAllocation(_, _)
initialAllocation(t, ids) ==
  IF ids = <<>> THEN t
  ELSE LET id == Head(ids)
           nb == getCurrentChoice(t.ballotStates[id], t.candidateStatus)
           choice == ChoiceAt(nb)
           t1 == IF choice # Null
                 THEN [t EXCEPT !.ballotStates[id] = nb,
                                !.candidateBallots[choice] = Append(@, id),
                                !.candidateMap[choice].votes = @ + nb.weight,
                                !.candidateMap[choice].firstRoundVotes = @ + nb.weight]
                 ELSE [t EXCEPT !.ballotStates[id] = nb,
                                !.exhaustedBallots = pushExhausted(@, id)]
       IN  initialAllocation(t1, Tail(ids))

\* Array.from(candidateMap.values()).filter(status === "active"), in Map order
activeCandidates(t, names) ==
  SelectSeq(names, LAMBDA n : t.candidateMap[n].status = "active")

\* lines 161-182: the allocations of a round record; the comparator keeps
\* the Exhausted entry, pushed last, behind every candidate
recordAllocations(t, names) ==
  LET listed == SelectSeq(names, LAMBDA n :
                   t.candidateMap[n].status \in {"active", "elected"})
      allocs == [i \in DOMAIN listed |->
                   [allocatee |-> t.candidateMap[listed[i]].index,
                    votes |-> t.candidateMap[listed[i]].votes]]
  IN  Append(SortDesc(allocs, [i \in DOMAIN allocs |-> R(allocs[i].votes)]),
             [allocatee |-> X, votes |-> Len(t.exhaustedBallots)])

\* lines 221-239 and 276-294: move each ballot to its next choice
RECURSIVE transferLoop(_, _, _)
transferLoop(t, tb, tc) ==
  IF tb = <<>> THEN [t |-> t, transferCounts |-> tc]
  ELSE LET id == Head(tb)
           nb == advanceToNextChoice(t.ballotStates[id], t.candidateStatus)
           nextChoice == ChoiceAt(nb)
           t1 == IF nextChoice # Null
                 THEN [t EXCEPT !.ballotStates[id] = nb,
                                !.candidateBallots[nextChoice] = Append(@, id),
                                !.candidateMap[nextChoice].votes = @ + nb.weight,
                                !.candidateMap[nextChoice].transferVotes = @ + nb.weight]
                 ELSE [t EXCEPT !.ballotStates[id] = nb,
                                !.exhaustedBallots = pushExhausted(@, id)]
       IN  transferLoop(t1, Tail(tb),
                        MapAdd(tc, IF nextChoice # Null THEN nextChoice ELSE "X", nb.weight))

\* lines 242-250 and 297-305: one Transfer per destination, in Map order
recordTransfers(t, from, tc, type) ==
  [i \in DOMAIN tc |->
     [from |-> t.candidateMap[from].index,
      to |-> IF tc[i].key = "X" THEN X ELSE t.candidateMap[tc[i].key].index,
      count |-> tc[i].value,
      type |-> type]]

\* mutant: one surplus ballot too few leaves the pile
surplusBallotsShort(ballotPile, surplus) == slice(ballotPile, 0, surplus - 1)

\* lines 213-214: the ballots that leave an elected candidate's pile
surplusBallots(ballotPile, surplus) == slice(ballotPile, 0, surplus)
keptBallots(ballotPile, surplus) == slice(ballotPile, surplus, Len(ballotPile))

\* lines 198-254: elect one over-quota candidate and transfer the surplus
electOne(t, elected, sts) ==
  LET t1 == [t EXCEPT !.candidateMap[elected].status = "elected",
                      !.candidateMap[elected].roundElected = t.roundNumber,
                      !.candidateStatus[elected] = "elected",
                      !.winners = Append(@, t.candidateMap[elected].index)]
      surplus == t1.candidateMap[elected].votes - t1.quota
      ballotPile == t1.candidateBallots[elected]
      t2 == [t1 EXCEPT !.candidateBallots[elected] = keptBallots(ballotPile, surplus)]
      moved == transferLoop(t2, surplusBallots(ballotPile, surplus), <<>>)
  IN  IF surplus > 0 /\ Len(t1.winners) < sts
      THEN [t |-> [moved.t EXCEPT !.candidateMap[elected].votes = pinToQuota(@, t.quota)],
            transfers |-> recordTransfers(moved.t, elected, moved.transferCounts, "surplus")]
      ELSE [t |-> [t1 EXCEPT !.candidateMap[elected].votes = pinToQuota(@, t.quota)],
            transfers |-> <<>>]

\* lines 195-255: the loop over the candidates at or above quota
RECURSIVE electLoop(_, _, _, _, _)
electLoop(t, overQuota, sts, transfers, electedThisRound) ==
  IF overQuota = <<>> \/ Len(t.winners) >= sts
  THEN [t |-> t, transfers |-> transfers, electedThisRound |-> electedThisRound,
        eliminatedThisRound |-> <<>>]
  ELSE LET r == electOne(t, Head(overQuota), sts)
       IN  electLoop(r.t, Tail(overQuota), sts, transfers \o r.transfers,
                     Append(electedThisRound, t.candidateMap[Head(overQuota)].index))

\* lines 189-191
overQuotaOf(t, names) ==
  LET over == SelectSeq(activeCandidates(t, names),
                        LAMBDA n : t.candidateMap[n].votes >= t.quota)
  IN  SortDesc(over, [i \in DOMAIN over |-> R(t.candidateMap[over[i]].votes)])

\* line 264: sort((a, b) => a.name.localeCompare(b.name))
sortByName(s) == SortDesc(s, [i \in DOMAIN s |-> R(0 - NameRank[s[i]])])

\* lines 258-265: the candidate to eliminate
SeqMin(s) == CHOOSE m \in Range(s) : \A x \in Range(s) : m <= x
lowestCandidate(t, names) ==
  LET act == activeCandidates(t, names)
      lowestVotes == SeqMin([i \in DOMAIN act |-> t.candidateMap[act[i]].votes])
      lowestCandidates == SelectSeq(act, LAMBDA n : t.candidateMap[n].votes = lowestVotes)
  IN  sortByName(lowestCandidates)[1]

\* mutant: the eliminated candidate is not entered in eliminatedThisRound
eliminateOneUnrecorded(t, eliminated) ==
  LET t1 == [t EXCEPT !.candidateMap[eliminated].status = "eliminated",
                      !.candidateMap[eliminated].roundEliminated = t.roundNumber,
                      !.candidateStatus[eliminated] = "eliminated"]
      moved == transferLoop(t1, t1.candidateBallots[eliminated], <<>>)
  IN  [t |-> [moved.t EXCEPT !.candidateBallots[eliminated] = <<>>,
                             !.candidateMap[eliminated].votes = 0],
       transfers |-> recordTransfers(moved.t, eliminated, moved.transferCounts, "elimination"),
       electedThisRound |-> <<>>,
       eliminatedThisRound |-> <<>>]

\* lines 267-308: eliminate the lowest candidate and transfer the whole pile
eliminateOne(t, eliminated) ==
  LET t1 == [t EXCEPT !.candidateMap[eliminated].status = "eliminated",
                      !.candidateMap[eliminated].roundEliminated = t.roundNumber,
                      !.candidateStatus[eliminated] = "eliminated"]
      moved == transferLoop(t1, t1.candidateBallots[eliminated], <<>>)
  IN  [t |-> [moved.t EXCEPT !.candidateBallots[eliminated] = <<>>,
                             !.candidateMap[eliminated].votes = 0],
       transfers |-> recordTransfers(moved.t, eliminated, moved.transferCounts, "elimination"),
       electedThisRound |-> <<>>,
       eliminatedThisRound |-> << t.candidateMap[eliminated].index >>]

\* lines 329-343: seat the remaining candidates when they fit the open seats
RECURSIVE fillLoop(_, _, _)
fillLoop(t, remaining, sts) ==
  IF remaining = <<>> \/ Len(t.winners) >= sts THEN t
  ELSE LET c == Head(remaining)
       IN  fillLoop([t EXCEPT !.candidateMap[c].status = "elected",
                              !.candidateMap[c].roundElected = t.roundNumber,
                              !.candidateStatus[c] = "elected",
                              !.winners = Append(@, t.candidateMap[c].index)],
                    Tail(remaining), sts)

\* mutant: the remaining candidates are seated only when fewer than the open seats
fillRemainingStrict(t, names, sts) ==
  LET remaining == activeCandidates(t, names)
  IN  IF Len(remaining) < sts - Len(t.winners)
      THEN [fillLoop(t, remaining, sts) EXCEPT !.brk = TRUE]
      ELSE t

\* mutant: every candidate not yet elected counts as remaining
fillRemainingRevive(t, names, sts) ==
  LET remaining == SelectSeq(names, LAMBDA n : t.candidateMap[n].status # "elected")
  IN  IF Len(remaining) <= sts - Len(t.winners)
      THEN [fillLoop(t, remaining, sts) EXCEPT !.brk = TRUE]
      ELSE t

fillRemaining(t, names, sts) ==
  LET remaining == activeCandidates(t, names)
  IN  IF Len(remaining) <= sts - Len(t.winners)
      THEN [fillLoop(t, remaining, sts) EXCEPT !.brk = TRUE]
      ELSE t

\* lines 153-344: one iteration of the round loop
tabulateSTVRound(t, blts, names, sts) ==
  LET allocations == recordAllocations(t, names)
      overQuota == overQuotaOf(t, names)
      r == IF Len(overQuota) > 0
           THEN electLoop(t, overQuota, sts, <<>>, <<>>)
           ELSE eliminateOne(t, lowestCandidate(t, names))
      record == [allocations |-> allocations,
                 continuingBallots |-> Len(blts) - Len(r.t.exhaustedBallots),
                 transfers |-> r.transfers,
                 electedThisRound |-> r.electedThisRound,
                 eliminatedThisRound |-> r.eliminatedThisRound]
  IN  fillRemaining([r.t EXCEPT !.rounds = Append(@, record),
                                !.roundNumber = @ + 1], names, sts)

\* line 153 and line 159: the loop runs another iteration
loopContinues(t, names, sts, maxRounds) ==
  /\ ~t.brk
  /\ Len(t.winners) < sts
  /\ t.roundNumber <= maxRounds
  /\ Len(activeCandidates(t, names)) > 0

\* why the loop was left
exitReasonOf(t, names, sts, maxRounds) ==
  IF t.brk THEN "fill"
  ELSE IF Len(t.winners) >= sts THEN "seats"
  ELSE IF t.roundNumber > maxRounds THEN "limit"
  ELSE "noactive"

\* mutant: roundEliminated filled from the round of election
summaryOfSwapped(t, names) ==
  [i \in DOMAIN names |->
     [candidate |-> t.candidateMap[names[i]].index,
      firstRoundVotes |-> t.candidateMap[names[i]].firstRoundVotes,
      transferVotes |-> t.candidateMap[names[i]].transferVotes,
      roundEliminated |-> t.candidateMap[names[i]].roundElected,
      roundElected |-> t.candidateMap[names[i]].roundElected]]

\* lines 347-355
summaryOf(t, names) ==
  [i \in DOMAIN names |->
     [candidate |-> t.candidateMap[names[i]].index,
      firstRoundVotes |-> t.candidateMap[names[i]].firstRoundVotes,
      transferVotes |-> t.candidateMap[names[i]].transferVotes,
      roundEliminated |-> t.candidateMap[names[i]].roundEliminated,
      roundElected |-> t.candidateMap[names[i]].roundElected]]

\* mutant: a round limit below the number of candidates
maxRoundsShort(names) == Len(names) - 1

\* line 151
maxRoundsSTV(names) == Len(names) * 2

tabulateSTVStart(blts, sts, names) ==
  initialAllocation(InitialState(blts, names, calculateDroopQuota(Len(blts), sts), 0, 1),
                    Ids(Len(blts)))

(***************************************************************************)
(* Fractional engine, src/unnamed/part_009.                                *)
(***************************************************************************)
\* getCurrentChoice of the fractional engine without the skip of elected
\* candidates (the skipElected parameter ignored)
RECURSIVE getCurrentChoiceFracKeepElected(_, _, _)
getCurrentChoiceFracKeepElected(ballot, cs, skipElected) ==
  IF ballot.currentIndex < Len(ballot.originalRankings)
  THEN LET status == StatusOf(cs, ChoiceAt(ballot))
       IN  IF status = "active" \/ status = "elected"
           THEN ballot
           ELSE getCurrentChoiceFracKeepElected([ballot EXCEPT !.currentIndex = @ + 1], cs, skipElected)
  ELSE ballot

RECURSIVE getCurrentChoiceFrac(_, _, _)
getCurrentChoiceFrac(ballot, cs, skipElected) ==
  IF ballot.currentIndex < Len(ballot.originalRankings)
  THEN LET status == StatusOf(cs, ChoiceAt(ballot))
       IN  IF status = "eliminated"
           THEN getCurrentChoiceFrac([ballot EXCEPT !.currentIndex = @ + 1], cs, skipElected)
           ELSE IF status = "elected" /\ skipElected
           THEN getCurrentChoiceFrac([ballot EXCEPT !.currentIndex = @ + 1], cs, skipElected)
           ELSE IF status = "active" \/ (status = "elected" /\ ~skipElected)
           THEN ballot
           ELSE getCurrentChoiceFrac([ballot EXCEPT !.currentIndex = @ + 1], cs, skipElected)
  ELSE ballot

advanceToNextChoiceFrac(ballot, cs) ==
  getCurrentChoiceFrac([ballot EXCEPT !.currentIndex = @ + 1], cs, TRUE)

calculateDroopQuotaFrac(totalBallots, sts) == (totalBallots \div (sts + 1)) + 1

\* line 114: totalBallotsForQuota ?? ballots.length
quotaBasisOf(blts, tbq) == IF tbq = Unsupplied THEN Len(blts) ELSE tbq

\* mutant: the exhausted weight subtracted instead of added
addExhaustedMinus(exhausted, w) == RSub(exhausted, w)

\* lines 164, 265 and 323: exhaustedVotes += weight
addExhausted(exhausted, w) == RAdd(exhausted, w)

\* lines 155-166
RECURSIVE initialAllocationFrac(_, _)
initialAllocationFrac(t, ids) ==
  IF ids = <<>> THEN t
  ELSE LET id == Head(ids)
           nb == getCurrentChoiceFrac(t.ballotStates[id], t.candidateStatus, FALSE)
           choice == ChoiceAt(nb)
           t1 == IF choice # Null
                 THEN [t EXCEPT !.ballotStates[id] = nb,
                                !.candidateBallots[choice] = Append(@, id),
                                !.candidateMap[choice].votes = RAdd(@, nb.weight),
                                !.candidateMap[choice].firstRoundVotes = RAdd(@, nb.weight)]
                 ELSE [t EXCEPT !.ballotStates[id] = nb,
                                !.exhaustedBallots = Append(@, id),
                                !.exhaustedVotes = addExhausted(@, nb.weight)]
       IN  initialAllocationFrac(t1, Tail(ids))

\* lines 180-200: the allocations of a round record
recordAllocationsFrac(t, names) ==
  LET listed == SelectSeq(names, LAMBDA n :
                   t.candidateMap[n].status \in {"active", "elected"})
      allocs == [i \in DOMAIN listed |->
                   [allocatee |-> t.candidateMap[listed[i]].index,
                    votes |-> t.candidateMap[listed[i]].votes]]
  IN  Append(SortDesc(allocs, [i \in DOMAIN allocs |-> allocs[i].votes]),
             [allocatee |-> X, votes |-> t.exhaustedVotes])

\* lines 382-399: the allocations of the final round record
finalAllocationsFrac(t, names) ==
  LET listed == SelectSeq(names, LAMBDA n : t.candidateMap[n].status = "elected")
      allocs == [i \in DOMAIN listed |->
                   [allocatee |-> t.candidateMap[listed[i]].index,
                    votes |-> t.candidateMap[listed[i]].votes]]
  IN  Append(SortDesc(allocs, [i \in DOMAIN allocs |-> allocs[i].votes]),
             [allocatee |-> X, votes |-> t.exhaustedVotes])

\* Map.set with fractional counts
RECURSIVE MapAddFrac(_, _, _)
MapAddFrac(m, k, w) ==
  IF m = <<>> THEN << [key |-> k, value |-> w] >>
  ELSE IF Head(m).key = k THEN << [key |-> k, value |-> RAdd(Head(m).value, w)] >> \o Tail(m)
  ELSE << Head(m) >> \o MapAddFrac(Tail(m), k, w)

\* lines 207-209
overQuotaFracOf(t, names) ==
  LET over == SelectSeq(activeCandidates(t, names),
                        LAMBDA n : RLe(R(t.quota), t.candidateMap[n].votes))
  IN  SortDesc(over, [i \in DOMAIN over |-> t.candidateMap[over[i]].votes])

\* mutant: the whole weight sent on
transferWeightWhole(weight, transferFraction) == weight

\* lines 239-240: the weight a ballot of the elected pile sends on, and keeps
transferWeightOf(weight, transferFraction) == RMul(weight, transferFraction)
weightAfterSurplus(weight, transferWeight) == RSub(weight, transferWeight)

\* lines 237-267: every ballot of the elected candidate's pile
RECURSIVE surplusLoopFrac(_, _, _, _, _)
surplusLoopFrac(t, pile, transferFraction, tc, ballotsToReassign) ==
  IF pile = <<>>
  THEN [t |-> t, transferCounts |-> tc, ballotsToReassign |-> ballotsToReassign]
  ELSE LET id == Head(pile)
           ballot == t.ballotStates[id]
           transferWeight == transferWeightOf(ballot.weight, transferFraction)
           b1 == [ballot EXCEPT !.weight = weightAfterSurplus(ballot.weight, transferWeight)]
           savedIndex == b1.currentIndex
           nb == getCurrentChoiceFrac([b1 EXCEPT !.currentIndex = @ + 1],
                                      t.candidateStatus, TRUE)
           nextChoice == ChoiceAt(nb)
       IN  IF nextChoice # Null
           THEN surplusLoopFrac(
                  [t EXCEPT !.ballotStates[id] = nb,
                            !.candidateMap[nextChoice].votes = RAdd(@, transferWeight),
                            !.candidateMap[nextChoice].transferVotes = RAdd(@, transferWeight)],
                  Tail(pile), transferFraction,
                  MapAddFrac(tc, nextChoice, transferWeight),
                  Append(ballotsToReassign, [ballot |-> id, newChoice |-> nextChoice]))
           ELSE surplusLoopFrac(
                  [t EXCEPT !.ballotStates[id] = [nb EXCEPT !.currentIndex = savedIndex],
                            !.exhaustedVotes = addExhausted(@, transferWeight)],
                  Tail(pile), transferFraction,
                  MapAddFrac(tc, "X", transferWeight),
                  ballotsToReassign)

\* lines 270-274: the reassigned ballots join their new piles
RECURSIVE reassignLoop(_, _)
reassignLoop(t, ballotsToReassign) ==
  IF ballotsToReassign = <<>> THEN t
  ELSE reassignLoop(
         [t EXCEPT !.candidateBallots[Head(ballotsToReassign).newChoice] =
                      Append(@, Head(ballotsToReassign).ballot)],
         Tail(ballotsToReassign))

\* lines 213-289: elect the highest candidate at quota and transfer its surplus
electFrac(t, elected, sts) ==
  LET t1 == [t EXCEPT !.candidateMap[elected].status = "elected",
                      !.candidateMap[elected].roundElected = t.roundNumber,
                      !.candidateStatus[elected] = "elected",
                      !.winners = Append(@, t.candidateMap[elected].index)]
      votes == t1.candidateMap[elected].votes
      surplus == RSub(votes, R(t1.quota))
      moved == surplusLoopFrac(t1, t1.candidateBallots[elected], RDiv(surplus, votes),
                               <<>>, <<>>)
      t2 == reassignLoop(moved.t, moved.ballotsToReassign)
  IN  IF RLt(R(0), surplus) /\ Len(t1.winners) < sts
      THEN [t |-> [t2 EXCEPT !.candidateMap[elected].votes = R(t.quota)],
            transfers |-> recordTransfers(t2, elected, moved.transferCounts, "surplus"),
            electedThisRound |-> << t.candidateMap[elected].index >>,
            eliminatedThisRound |-> <<>>]
      ELSE [t |-> [t1 EXCEPT !.candidateMap[elected].votes = R(t.quota)],
            transfers |-> <<>>,
            electedThisRound |-> << t.candidateMap[elected].index >>,
            eliminatedThisRound |-> <<>>]

\* mutant: a tie only between equal votes
lowestCandidateFracExact(t, names) ==
  LET act == activeCandidates(t, names)
      lowestVotes == CHOOSE m \in { t.candidateMap[n].votes : n \in Range(act) } :
                       \A n \in Range(act) : RLe(m, t.candidateMap[n].votes)
      lowestCandidates ==
        SelectSeq(act, LAMBDA n : t.candidateMap[n].votes = lowestVotes)
  IN  sortByName(lowestCandidates)[1]

\* lines 292-299: the candidate to eliminate
lowestCandidateFrac(t, names) ==
  LET act == activeCandidates(t, names)
      lowestVotes == CHOOSE m \in { t.candidateMap[n].votes : n \in Range(act) } :
                       \A n \in Range(act) : RLe(m, t.candidateMap[n].votes)
      lowestCandidates ==
        SelectSeq(act, LAMBDA n :
          RLt(RAbs(RSub(t.candidateMap[n].votes, lowestVotes)), <<1, 10000>>))
  IN  sortByName(lowestCandidates)[1]

\* lines 310-329: every ballot of the eliminated pile moves at its current weight
RECURSIVE eliminationLoopFrac(_, _, _)
eliminationLoopFrac(t, pile, tc) ==
  IF pile = <<>> THEN [t |-> t, transferCounts |-> tc]
  ELSE LET id == Head(pile)
           nb == advanceToNextChoiceFrac(t.ballotStates[id], t.candidateStatus)
           nextChoice == ChoiceAt(nb)
           t1 == IF nextChoice # Null
                 THEN [t EXCEPT !.ballotStates[id] = nb,
                                !.candidateBallots[nextChoice] = Append(@, id),
                                !.candidateMap[nextChoice].votes = RAdd(@, nb.weight),
                                !.candidateMap[nextChoice].transferVotes = RAdd(@, nb.weight)]
                 ELSE [t EXCEPT !.ballotStates[id] = nb,
                                !.exhaustedBallots = Append(@, id),
                                !.exhaustedVotes = addExhausted(@, nb.weight)]
       IN  eliminationLoopFrac(t1, Tail(pile),
             MapAddFrac(tc, IF nextChoice # Null THEN nextChoice ELSE "X", nb.weight))

\* lines 301-343: eliminate the lowest candidate
eliminateFrac(t, eliminated) ==
  LET t1 == [t EXCEPT !.candidateMap[eliminated].status = "eliminated",
                      !.candidateMap[eliminated].roundEliminated = t.roundNumber,
                      !.candidateStatus[eliminated] = "eliminated"]
      moved == eliminationLoopFrac(t1, t1.candidateBallots[eliminated], <<>>)
  IN  [t |-> [moved.t EXCEPT !.candidateBallots[eliminated] = <<>>,
                             !.candidateMap[eliminated].votes = R(0)],
       transfers |-> recordTransfers(moved.t, eliminated, moved.transferCounts, "elimination"),
       electedThisRound |-> <<>>,
       eliminatedThisRound |-> << t.candidateMap[eliminated].index >>]

\* lines 347-349
RECURSIVE SumVotes(_, _)
SumVotes(t, listed) ==
  IF listed = <<>> THEN R(0)
  ELSE RAdd(SumVotes(t, SubSeq(listed, 1, Len(listed) - 1)),
            t.candidateMap[listed[Len(listed)]].votes)

continuingVotesOf(t, names) ==
  SumVotes(t, SelectSeq(names, LAMBDA n :
                 t.candidateMap[n].status \in {"active", "elected"}))

\* lines 367-411: seat the remaining candidates and record the final round
fillRemainingFrac(t, names, sts, continuingVotes) ==
  LET act == activeCandidates(t, names)
      remaining == SortDesc(act, [i \in DOMAIN act |-> t.candidateMap[act[i]].votes])
      t1 == fillLoop(t, remaining, sts)
      final == [allocations |-> finalAllocationsFrac(t1, names),
                continuingBallots |-> RRound(continuingVotes),
                transfers |-> <<>>,
                electedThisRound |-> [i \in DOMAIN remaining |->
                                        t.candidateMap[remaining[i]].index],
                eliminatedThisRound |-> <<>>]
  IN  IF Len(remaining) <= sts - Len(t.winners) /\ Len(remaining) > 0
      THEN [t1 EXCEPT !.rounds = Append(@, final), !.brk = TRUE]
      ELSE t

\* lines 171-412: one iteration of the round loop
tabulateFractionalSTVRound(t, names, sts) ==
  LET allocations == recordAllocationsFrac(t, names)
      overQuota == overQuotaFracOf(t, names)
      r == IF Len(overQuota) > 0
           THEN electFrac(t, overQuota[1], sts)
           ELSE eliminateFrac(t, lowestCandidateFrac(t, names))
      continuingVotes == continuingVotesOf(r.t, names)
      record == [allocations |-> allocations,
                 continuingBallots |-> RRound(continuingVotes),
                 transfers |-> r.transfers,
                 electedThisRound |-> r.electedThisRound,
                 eliminatedThisRound |-> r.eliminatedThisRound]
  IN  fillRemainingFrac([r.t EXCEPT !.rounds = Append(@, record),
                                    !.roundNumber = @ + 1], names, sts, continuingVotes)

\* line 169
maxRoundsFrac(names) == Len(names) * 3

tabulateFractionalSTVStart(blts, sts, names, tbq) ==
  initialAllocationFrac(
    InitialState(blts, names, calculateDroopQuotaFrac(quotaBasisOf(blts, tbq), sts),
                 R(0), R(1)),
    Ids(Len(blts)))

(***************************************************************************)
(* The state machine.                                                      *)
(***************************************************************************)
Current ==
  [ quota |-> quota, candidateMap |-> candidateMap, candidateStatus |-> candidateStatus,
    ballotStates |-> ballotStates, candidateBallots |-> candidateBallots,
    exhaustedBallots |-> exhaustedBallots, exhaustedVotes |-> exhaustedVotes,
    winners |-> winners, rounds |-> rounds, roundNumber |-> roundNumber,
    brk |-> (pc = "break") ]

Assign(t) ==
  /\ quota' = t.quota
  /\ candidateMap' = t.candidateMap
  /\ candidateStatus' = t.candidateStatus
  /\ ballotStates' = t.ballotStates
  /\ candidateBallots' = t.candidateBallots
  /\ exhaustedBallots' = t.exhaustedBallots
  /\ exhaustedVotes' = t.exhaustedVotes
  /\ winners' = t.winners
  /\ rounds' = t.rounds
  /\ roundNumber' = t.roundNumber
  /\ pc' = IF t.brk THEN "break" ELSE "loop"

inputs == <<engine, ballots, seats, candidateNames, totalBallotsForQuota>>

Init ==
  /\ engine \in {"whole", "frac"}
  /\ ballots \in BallotLists
  /\ seats \in 1..MaxSeats
  /\ candidateNames \in CandidateLists
  \* the optional total counts the ballots passed, or these and an undervote
  /\ totalBallotsForQuota \in
       IF engine = "frac"
       THEN {Unsupplied, Len(ballots) + 1}
       ELSE {Unsupplied}
  /\ quota = 0
  /\ candidateMap = << >>
  /\ candidateStatus = << >>
  /\ ballotStates = << >>
  /\ candidateBallots = << >>
  /\ exhaustedBallots = << >>
  /\ exhaustedVotes = 0
  /\ winners = << >>
  /\ rounds = << >>
  /\ roundNumber = 0
  /\ pc = "call"
  /\ exitReason = "none"
  /\ candidateVotes = << >>
  /\ tables = << >>

WholeStart ==
  /\ pc = "call" /\ engine = "whole"
  /\ Assign(tabulateSTVStart(ballots, seats, candidateNames))
  /\ UNCHANGED <<inputs, exitReason, candidateVotes, tables>>

WholeElect ==
  /\ pc = "loop" /\ engine = "whole"
  /\ loopContinues(Current, candidateNames, seats, maxRoundsSTV(candidateNames))
  /\ Len(overQuotaOf(Current, candidateNames)) > 0
  /\ Assign(tabulateSTVRound(Current, ballots, candidateNames, seats))
  /\ UNCHANGED <<inputs, exitReason, candidateVotes, tables>>

WholeEliminate ==
  /\ pc = "loop" /\ engine = "whole"
  /\ loopContinues(Current, candidateNames, seats, maxRoundsSTV(candidateNames))
  /\ Len(overQuotaOf(Current, candidateNames)) = 0
  /\ Assign(tabulateSTVRound(Current, ballots, candidateNames, seats))
  /\ UNCHANGED <<inputs, exitReason, candidateVotes, tables>>

WholeReturn ==
  /\ pc \in {"loop", "break"} /\ engine = "whole"
  /\ ~loopContinues(Current, candidateNames, seats, maxRoundsSTV(candidateNames))
  /\ exitReason' = exitReasonOf(Current, candidateNames, seats, maxRoundsSTV(candidateNames))
  /\ candidateVotes' = summaryOf(Current, candidateNames)
  /\ pc' = "done"
  /\ UNCHANGED <<inputs, quota, candidateMap, candidateStatus, ballotStates,
                 candidateBallots, exhaustedBallots, exhaustedVotes, winners,
                 rounds, roundNumber, tables>>

FracStart ==
  /\ pc = "call" /\ engine = "frac"
  /\ Assign(tabulateFractionalSTVStart(ballots, seats, candidateNames, totalBallotsForQuota))
  /\ UNCHANGED <<inputs, exitReason, candidateVotes, tables>>

FracElect ==
  /\ pc = "loop" /\ engine = "frac"
  /\ loopContinues(Current, candidateNames, seats, maxRoundsFrac(candidateNames))
  /\ Len(overQuotaFracOf(Current, candidateNames)) > 0
  /\ Assign(tabulateFractionalSTVRound(Current, candidateNames, seats))
  /\ UNCHANGED <<inputs, exitReason, candidateVotes, tables>>

FracEliminate ==
  /\ pc = "loop" /\ engine = "frac"
  /\ loopContinues(Current, candidateNames, seats, maxRoundsFrac(candidateNames))
  /\ Len(overQuotaFracOf(Current, candidateNames)) = 0
  /\ Assign(tabulateFractionalSTVRound(Current, candidateNames, seats))
  /\ UNCHANGED <<inputs, exitReason, candidateVotes, tables>>

FracReturn ==
  /\ pc \in {"loop", "break"} /\ engine = "frac"
  /\ ~loopContinues(Current, candidateNames, seats, maxRoundsFrac(candidateNames))
  /\ exitReason' = exitReasonOf(Current, candidateNames, seats, maxRoundsFrac(candidateNames))
  /\ candidateVotes' = summaryOf(Current, candidateNames)
  /\ pc' = "done"
  /\ UNCHANGED <<inputs, quota, candidateMap, candidateStatus, ballotStates,
                 candidateBallots, exhaustedBallots, exhaustedVotes, winners,
                 rounds, roundNumber, tables>>

Next ==
  \/ WholeStart \/ WholeElect \/ WholeEliminate \/ WholeReturn
  \/ FracStart \/ FracElect \/ FracEliminate \/ FracReturn

Spec == Init /\ [][Next]_vars

\* the calls that leave the quota basis to the number of ballots passed
DefaultBasisInit == Init /\ totalBallotsForQuota = Unsupplied
DefaultBasisSpec == DefaultBasisInit /\ [][Next]_vars

\* The caller's side of a call: nothing is running until the caller passes
\* its arguments, and the call then runs on the caller's thread until it
\* returns.
Idle ==
  /\ engine = "whole"
  /\ ballots = << >>
  /\ seats = 1
  /\ candidateNames = << >>
  /\ totalBallotsForQuota = Unsupplied
  /\ quota = 0
  /\ candidateMap = << >>
  /\ candidateStatus = << >>
  /\ ballotStates = << >>
  /\ candidateBallots = << >>
  /\ exhaustedBallots = << >>
  /\ exhaustedVotes = 0
  /\ winners = << >>
  /\ rounds = << >>
  /\ roundNumber = 0
  /\ pc = "idle"
  /\ exitReason = "none"
  /\ candidateVotes = << >>
  /\ tables = << >>

Call ==
  /\ pc = "idle"
  /\ engine' \in {"whole", "frac"}
  /\ ballots' \in BallotLists
  /\ seats' \in 1..MaxSeats
  /\ candidateNames' \in CandidateLists
  /\ totalBallotsForQuota' \in
       IF engine' = "frac"
       THEN {Unsupplied, Len(ballots') + 1}
       ELSE {Unsupplied}
  /\ pc' = "call"
  /\ UNCHANGED <<quota, candidateMap, candidateStatus, ballotStates,
                 candidateBallots, exhaustedBallots, exhaustedVotes, winners,
                 rounds, roundNumber, exitReason, candidateVotes, tables>>

FairNext == Call \/ Next

\* The thread that runs a call is not suspended for ever: until the call has
\* returned, control moves on.  Every step of FairNext moves pc or the round
\* number, so the condition is stated on these two.
Positions == {"idle", "call", "loop", "break", "done"}
Running ==
  /\ pc # "done"
  /\ pc' \in Positions
  /\ roundNumber' \in {roundNumber, roundNumber + 1}

FairSpec == Idle /\ [][FairNext]_vars /\ WF_<<pc, roundNumber>>(Running)

(***************************************************************************)
(* The documented scenarios and boundary cases as calls.                   *)
(***************************************************************************)
Repeat(r, n) == [i \in 1..n |-> r]

Contest(e, b, s, c) == [engine |-> e, ballots |-> b, seats |-> s, candidateNames |-> c]

\* S1: Alice>Bob x40, Bob>Alice x35, Carol>Alice>Bob x25
BallotsS1 ==
  Repeat(<<"Alice", "Bob">>, 40) \o Repeat(<<"Bob", "Alice">>, 35)
    \o Repeat(<<"Carol", "Alice", "Bob">>, 25)
CandidatesS1 == <<"Alice", "Bob", "Carol">>
\* S2: ten ballots A>B>C>D
BallotsS2 == Repeat(<<"A", "B", "C", "D">>, 10)
\* S4: A>B x6, A>C x6, C>B x3
BallotsS4 ==
  Repeat(<<"A", "B">>, 6) \o Repeat(<<"A", "C">>, 6) \o Repeat(<<"C", "B">>, 3)
\* B3: N identical ballots A>B>C
BallotsB3(n) == Repeat(<<"A", "B", "C">>, n)
\* several candidates at quota in one round: A>B x a, B>C x b, C x c
BallotsOver(a, b, c) ==
  Repeat(<<"A", "B">>, a) \o Repeat(<<"B", "C">>, b) \o Repeat(<<"C">>, c)
\* a single seat with bullet votes that exhaust: A x a, B, C
BallotsBullet(a) == Repeat(<<"A">>, a) \o << <<"B">>, <<"C">> >>
\* B2: one bullet vote for each of k of the candidates, in the order p
BallotsB2(c, p, k) == [i \in 1..k |-> <<c[p[i]]>>]

Scenarios ==
  { Contest(e, BallotsS2, 2, <<"A", "B", "C", "D">>) : e \in {"whole", "frac"} }
  \cup { Contest(e, BallotsS4, 2, <<"A", "B", "C">>) : e \in {"whole", "frac"} }
  \cup { Contest(e, BallotsB3(n), 2, <<"A", "B", "C">>) :
           e \in {"whole", "frac"}, n \in 1..MaxIdentical }
  \cup { Contest(e, BallotsBullet(a), 1, <<"A", "B", "C">>) :
           e \in {"whole", "frac"}, a \in 1..MaxOver }
  \cup UNION { { Contest(e, BallotsOver(a, b, c), s, cl) :
                   e \in {"whole", "frac"}, c \in 0..1, s \in 2..3,
                   cl \in {<<"A", "B", "C">>, <<"A", "B", "C", "D">>} } :
               a, b \in 1..MaxOver }
  \cup UNION { { Contest(e, BallotsB2(c, p, k), s, c) :
                   e \in {"whole", "frac"}, p \in Permutations(DOMAIN c),
                   k \in 1..Len(c), s \in Len(c)..Cardinality(Names) } :
               c \in CandidateLists }

ScenarioInit ==
  /\ \E sc \in Scenarios :
       /\ engine = sc.engine
       /\ ballots = sc.ballots
       /\ seats = sc.seats
       /\ candidateNames = sc.candidateNames
  /\ totalBallotsForQuota = Unsupplied
  /\ quota = 0
  /\ candidateMap = << >>
  /\ candidateStatus = << >>
  /\ ballotStates = << >>
  /\ candidateBallots = << >>
  /\ exhaustedBallots = << >>
  /\ exhaustedVotes = 0
  /\ winners = << >>
  /\ rounds = << >>
  /\ roundNumber = 0
  /\ pc = "call"
  /\ exitReason = "none"
  /\ candidateVotes = << >>
  /\ tables = << >>

ScenarioSpec == ScenarioInit /\ [][Next]_vars

(***************************************************************************)
(* Contests with a surplus of one vote out of v: D x (v - 1), D>A, A, B,   *)
(* two seats, and a quota basis that counts the ballots left blank as      *)
(* well, so that the quota is v - 1.  The first round elects D and sends   *)
(* 1/v of every ballot of D's pile on: A receives 1/v of a vote and the    *)
(* bullet votes for D send (v - 1)/v to Exhausted.  AfterSurplusNear(v) is *)
(* the state that round leaves: the contests of the family small enough to *)
(* be run from the call reach exactly it (NearClosedForm), and the contest *)
(* of 10004 ballots is taken up there, at the start of its second round.   *)
(***************************************************************************)
BallotsNear(v) == Repeat(<<"D">>, v - 1) \o << <<"D", "A">>, <<"A">>, <<"B">> >>
CandidatesNear == <<"A", "B", "D">>
BasisNear(v) == 3 * v - 6

VotesNear(v, n) == IF n = "D" THEN R(v) ELSE R(1)

AfterSurplusNear(v) ==
  LET names == CandidatesNear
      idx(n) == (CHOOSE i \in DOMAIN names : names[i] = n) - 1
      sorted == SortDesc(names, [i \in DOMAIN names |-> VotesNear(v, names[i])])
      record == [allocations |->
                   [i \in DOMAIN sorted |->
                      [allocatee |-> idx(sorted[i]), votes |-> VotesNear(v, sorted[i])]]
                     \o << [allocatee |-> X, votes |-> R(0)] >>,
                 continuingBallots |-> v + 1,
                 transfers |->
                   << [from |-> idx("D"), to |-> X, count |-> <<v - 1, v>>, type |-> "surplus"],
                      [from |-> idx("D"), to |-> idx("A"), count |-> <<1, v>>, type |-> "surplus"] >>,
                 electedThisRound |-> << idx("D") >>,
                 eliminatedThisRound |-> << >>]
  IN  [ quota |-> v - 1,
        candidateMap |-> [n \in Range(names) |->
            [index |-> idx(n), name |-> n,
             votes |-> IF n = "D" THEN R(v - 1)
                       ELSE IF n = "A" THEN <<v + 1, v>> ELSE R(1),
             status |-> IF n = "D" THEN "elected" ELSE "active",
             roundElected |-> IF n = "D" THEN 1 ELSE NoRound,
             roundEliminated |-> NoRound,
             firstRoundVotes |-> VotesNear(v, n),
             transferVotes |-> IF n = "A" THEN <<1, v>> ELSE R(0)]],
        candidateStatus |-> [n \in Range(names) |-> IF n = "D" THEN "elected" ELSE "active"],
        ballotStates |-> [i \in 1..(v + 2) |->
            [originalRankings |-> IF i < v THEN <<"D">>
                                  ELSE IF i = v THEN <<"D", "A">>
                                  ELSE IF i = v + 1 THEN <<"A">> ELSE <<"B">>,
             currentIndex |-> IF i = v THEN 1 ELSE 0,
             weight |-> IF i <= v THEN <<v - 1, v>> ELSE R(1)]],
        candidateBallots |-> [n \in Range(names) |->
            IF n = "D" THEN [i \in 1..v |-> i]
            ELSE IF n = "A" THEN <<v + 1, v>> ELSE <<v + 2>>],
        exhaustedBallots |-> << >>,
        exhaustedVotes |-> <<v - 1, v>>,
        winners |-> << idx("D") >>,
        rounds |-> << record >>,
        roundNumber |-> 2,
        brk |-> FALSE ]

IsNear(v) ==
  /\ engine = "frac" /\ ballots = BallotsNear(v) /\ seats = 2
  /\ candidateNames = CandidatesNear /\ totalBallotsForQuota = BasisNear(v)

\* the small contests of the family, from the call
NearInit ==
  /\ \E a \in 1..MaxOver : IsNear(4 + a)
  /\ quota = 0
  /\ candidateMap = << >>
  /\ candidateStatus = << >>
  /\ ballotStates = << >>
  /\ candidateBallots = << >>
  /\ exhaustedBallots = << >>
  /\ exhaustedVotes = 0
  /\ winners = << >>
  /\ rounds = << >>
  /\ roundNumber = 0
  /\ pc = "call"
  /\ exitReason = "none"
  /\ candidateVotes = << >>
  /\ tables = << >>

\* their first round leaves the state AfterSurplusNear
NearClosedForm ==
  \A a \in 1..MaxOver :
    (IsNear(4 + a) /\ roundNumber = 2 /\ Len(rounds) = 1) =>
      Current = AfterSurplusNear(4 + a)

\* 1/10002 of a vote is less than the tolerance 0.0001 of the elimination tie
NearTieInit ==
  /\ IsNear(10002)
  /\ quota = AfterSurplusNear(10002).quota
  /\ candidateMap = AfterSurplusNear(10002).candidateMap
  /\ candidateStatus = AfterSurplusNear(10002).candidateStatus
  /\ ballotStates = AfterSurplusNear(10002).ballotStates
  /\ candidateBallots = AfterSurplusNear(10002).candidateBallots
  /\ exhaustedBallots = AfterSurplusNear(10002).exhaustedBallots
  /\ exhaustedVotes = AfterSurplusNear(10002).exhaustedVotes
  /\ winners = AfterSurplusNear(10002).winners
  /\ rounds = AfterSurplusNear(10002).rounds
  /\ roundNumber = AfterSurplusNear(10002).roundNumber
  /\ pc = "loop"
  /\ exitReason = "none"
  /\ candidateVotes = << >>
  /\ tables = << >>

\* the documented contests and the small contests of the family from the call,
\* and the large one from its second round
NearTieSpec == (ScenarioInit \/ NearInit \/ NearTieInit) /\ [][Next]_vars

(***************************************************************************)
(* The ballot-level tables of a report.                                    *)
(***************************************************************************)
SetMin(S) == CHOOSE x \in S : \A y \in S : x <= y

\* new Map(candidateNames.map((name, i) => [name, i])).get(name); undefined
\* is the number that is not set
nameToIndex(names, name) ==
  IF name \in Range(names)
  THEN (CHOOSE i \in DOMAIN names : names[i] = name) - 1
  ELSE Unsupplied

\* one cell of a table
Entry(num, denom) ==
  [frac |-> IF denom > 0 THEN RDiv(R(num), R(denom)) ELSE R(0),
   numerator |-> num,
   denominator |-> denom]

ZeroEntry == [frac |-> R(0), numerator |-> 0, denominator |-> 0]

\* lines 338-345: the rank of candidate idx on a ballot, its first
\* occurrence; the name with index idx is names[idx + 1]
rankOf(rankings, names, idx) ==
  IF \E r \in DOMAIN rankings : rankings[r] = names[idx + 1]
  THEN SetMin({ r \in DOMAIN rankings : rankings[r] = names[idx + 1] }) - 1
  ELSE Unsupplied

\* mutant: a preference is counted only when both candidates are ranked
prefersBothRanked(rankA, rankB) ==
  rankA # Unsupplied /\ rankB # Unsupplied /\ rankA < rankB

\* lines 362-366: the ballot prefers A over B
prefers(rankA, rankB) ==
  rankA # Unsupplied /\ (rankB = Unsupplied \/ rankA < rankB)

\* lines 320-397; a counter is the number of ballots that increment it
computePairwisePreferences(blts, names) ==
  LET n == Len(names)
      counted(a, b) ==
        { i \in DOMAIN blts :
            ~(rankOf(blts[i], names, a) = Unsupplied
              /\ rankOf(blts[i], names, b) = Unsupplied) }
      denominators(a, b) == Cardinality(counted(a, b))
      prefersAoverB(a, b) ==
        Cardinality({ i \in counted(a, b) :
                        prefers(rankOf(blts[i], names, a),
                                rankOf(blts[i], names, b)) })
  IN  [rows |-> [i \in 1..n |-> i - 1],
       cols |-> [i \in 1..n |-> i - 1],
       entries |->
         [a \in 1..n |->
            [b \in 1..n |->
               IF a = b THEN ZeroEntry
               ELSE Entry(prefersAoverB(a - 1, b - 1),
                          denominators(a - 1, b - 1))]]]

\* mutant: the first choice is read from the last rank
firstChoiceOfLast(rankings, names) ==
  IF Len(rankings) = 0 THEN Unsupplied
  ELSE nameToIndex(names, rankings[Len(rankings)])

\* lines 422-427 and 510-515: the row of a ballot, undefined when the ballot
\* is skipped
firstChoiceOf(rankings, names) ==
  IF Len(rankings) = 0 THEN Unsupplied
  ELSE nameToIndex(names, rankings[1])

\* mutant: an unlisted second rank is passed over for the next listed one
secondChoiceOfNextListed(rankings, names) ==
  LET later == { r \in DOMAIN rankings :
                   r > 1 /\ nameToIndex(names, rankings[r]) # Unsupplied }
  IN  IF later = {} THEN Len(names)
      ELSE nameToIndex(names, rankings[SetMin(later)])

\* lines 429-442: the column of a ballot, n for Exhausted
secondChoiceOf(rankings, names) ==
  IF Len(rankings) > 1
  THEN LET secondIdx == nameToIndex(names, rankings[2])
       IN  IF secondIdx # Unsupplied THEN secondIdx ELSE Len(names)
  ELSE Len(names)

\* the columns of the two tables that have an Exhausted column
ColsWithExhausted(n) == [i \in 1..(n + 1) |-> IF i <= n THEN i - 1 ELSE X]

\* lines 405-467
computeFirstAlternate(blts, names) ==
  LET n == Len(names)
      firstChoiceCounts(a) ==
        Cardinality({ i \in DOMAIN blts : firstChoiceOf(blts[i], names) = a })
      secondChoice(a, b) ==
        Cardinality({ i \in DOMAIN blts :
                        /\ firstChoiceOf(blts[i], names) = a
                        /\ secondChoiceOf(blts[i], names) = b })
  IN  [rows |-> [i \in 1..n |-> i - 1],
       cols |-> ColsWithExhausted(n),
       entries |->
         [a \in 1..n |->
            [b \in 1..(n + 1) |->
               IF a = b /\ b - 1 < n THEN ZeroEntry
               ELSE Entry(secondChoice(a - 1, b - 1),
                          firstChoiceCounts(a - 1))]]]

\* lines 491-502: the candidates some round of the trace eliminated
eliminatedOf(rnds) ==
  UNION { Range(rnds[r].eliminatedThisRound) : r \in DOMAIN rnds }

\* mutant: the ballot stays with its first listed candidate
finalOfFirstListed(rankings, names, eliminated) ==
  LET live == { r \in DOMAIN rankings :
                  nameToIndex(names, rankings[r]) # Unsupplied }
  IN  IF live = {} THEN Len(names)
      ELSE nameToIndex(names, rankings[SetMin(live)])

\* lines 517-535: the column of a ballot, n for Exhausted
finalOf(rankings, names, eliminated) ==
  LET live == { r \in DOMAIN rankings :
                  /\ nameToIndex(names, rankings[r]) # Unsupplied
                  /\ nameToIndex(names, rankings[r]) \notin eliminated }
  IN  IF live = {} THEN Len(names)
      ELSE nameToIndex(names, rankings[SetMin(live)])

\* lines 475-554
computeFirstFinal(blts, names, rnds) ==
  LET n == Len(names)
      eliminated == eliminatedOf(rnds)
      firstChoiceCounts(a) ==
        Cardinality({ i \in DOMAIN blts : firstChoiceOf(blts[i], names) = a })
      finalAllocation(a, b) ==
        Cardinality({ i \in DOMAIN blts :
                        /\ firstChoiceOf(blts[i], names) = a
                        /\ finalOf(blts[i], names, eliminated) = b })
  IN  [rows |-> [i \in 1..n |-> i - 1],
       cols |-> ColsWithExhausted(n),
       entries |->
         [a \in 1..n |->
            [b \in 1..(n + 1) |->
               Entry(finalAllocation(a - 1, b - 1), firstChoiceCounts(a - 1))]]]

\* mutant: every rank of a ballot counts, listed or not
uniqueValidLength(rankings, names) == Len(rankings)

\* lines 572-578: the number of distinct listed candidates on a ballot
uniqueValid(rankings, names) ==
  Cardinality({ nameToIndex(names, rankings[r]) : r \in DOMAIN rankings }
                \ {Unsupplied})

\* lines 561-609; a Record has the keys that were assigned
computeRankingDistribution(blts, names) ==
  LET count == [i \in DOMAIN blts |-> uniqueValid(blts[i], names)]
      valid == { i \in DOMAIN blts : count[i] # 0 }
      byFirst(name) ==
        { i \in valid : blts[i] # << >> /\ blts[i][1] = name }
      histogram(S) ==
        [k \in { count[i] : i \in S } |->
           Cardinality({ i \in S : count[i] = k })]
  IN  [overallDistribution |-> histogram(valid),
       candidateDistributions |->
         [name \in Range(names) |-> histogram(byFirst(name))],
       totalBallots |-> Len(blts),
       candidateTotals |->
         [name \in Range(names) |-> Cardinality(byFirst(name))]]

\* lines 615-641; the table that round data does not exist for is left out
computePairwiseTables(blts, names, rnds) ==
  [pairwisePreferences |-> computePairwisePreferences(blts, names),
   firstAlternate |-> computeFirstAlternate(blts, names),
   rankingDistribution |-> computeRankingDistribution(blts, names),
   firstFinal |-> IF Len(rnds) > 0
                  THEN computeFirstFinal(blts, names, rnds)
                  ELSE << >>]

\* lines 646-657: the ballots of the command-line self-test
testBallots ==
  << <<"A", "B", "C">>, <<"A", "C", "B">>, <<"B", "A", "C">>,
     <<"B", "C", "A">>, <<"C", "A", "B">>, <<"C", "B", "A">>,
     <<"A", "B">>, <<"A", "C">>, <<"B", "A">>, <<"B", "C">> >>

\* computePairwiseTables(ballots, candidateNames, rounds) in the position
\* of its caller: the command line ("main") has ballots and candidates
\* alone, a loader ("done") has tabulated the contest and passes the rounds
PairwiseTables ==
  /\ pc \in {"main", "done"}
  /\ tables = << >>
  /\ tables' = computePairwiseTables(ballots, candidateNames, rounds)
  /\ UNCHANGED <<inputs, quota, candidateMap, candidateStatus, ballotStates,
                 candidateBallots, exhaustedBallots, exhaustedVotes, winners,
                 rounds, roundNumber, pc, exitReason, candidateVotes>>

\* The tables of ballots and candidates without round data.
AnalyticsInit ==
  /\ pc = "main"
  /\ \/ ballots \in BallotLists /\ candidateNames \in CandidateLists
     \/ ballots = testBallots /\ candidateNames = <<"A", "B", "C">>
     \/ ballots = BallotsS1 /\ candidateNames = CandidatesS1
  /\ engine = "whole"
  /\ seats = 1
  /\ totalBallotsForQuota = Unsupplied
  /\ quota = 0
  /\ candidateMap = << >>
  /\ candidateStatus = << >>
  /\ ballotStates = << >>
  /\ candidateBallots = << >>
  /\ exhaustedBallots = << >>
  /\ exhaustedVotes = 0
  /\ winners = << >>
  /\ rounds = << >>
  /\ roundNumber = 0
  /\ exitReason = "none"
  /\ candidateVotes = << >>
  /\ tables = << >>

AnalyticsSpec == AnalyticsInit /\ [][PairwiseTables]_vars

\* The reports of the loaders: a contest is tabulated and the tables are
\* made of its ballots, candidates and rounds.  The whole-ballot engine is
\* called with the default quota basis.  The loader of the fractional engine
\* passes the total of the ballots cast, and the candidate list of its parser
\* is sorted and holds every name that a ballot ranks.
NamesOn(blts) == UNION { Range(blts[i]) : i \in DOMAIN blts }
IsSorted(names) ==
  \A i, j \in DOMAIN names : i < j => localeCompare(names[i], names[j]) < 0

ReportInit ==
  /\ Init
  /\ engine = "whole" => totalBallotsForQuota = Unsupplied
  /\ engine = "frac" =>
       /\ totalBallotsForQuota # Unsupplied
       /\ IsSorted(candidateNames)
       /\ NamesOn(ballots) \subseteq Range(candidateNames)

ReportNext == Next \/ PairwiseTables

ReportSpec == ReportInit /\ [][ReportNext]_vars

\* The calls of any caller: neither engine looks at its arguments before it
\* uses them, so a call is also made with no seat to fill and with no
\* candidate.
ContestInit ==
  /\ engine \in {"whole", "frac"}
  /\ ballots \in BallotLists
  /\ seats \in 0..MaxSeats
  /\ candidateNames \in CandidateLists \cup { << >> }
  /\ totalBallotsForQuota = Unsupplied
  /\ quota = 0
  /\ candidateMap = << >>
  /\ candidateStatus = << >>
  /\ ballotStates = << >>
  /\ candidateBallots = << >>
  /\ exhaustedBallots = << >>
  /\ exhaustedVotes = 0
  /\ winners = << >>
  /\ rounds = << >>
  /\ roundNumber = 0
  /\ pc = "call"
  /\ exitReason = "none"
  /\ candidateVotes = << >>
  /\ tables = << >>

ContestSpec == ContestInit /\ [][Next]_vars

(***************************************************************************)
(* A whole call as a function of its arguments.                            *)
(***************************************************************************)
RECURSIVE roundLoopSTV(_, _, _, _)
roundLoopSTV(t, blts, names, sts) ==
  IF loopContinues(t, names, sts, maxRoundsSTV(names))
  THEN roundLoopSTV(tabulateSTVRound(t, blts, names, sts), blts, names, sts)
  ELSE t

\* lines 357-364: the returned result
tabulateSTV(blts, sts, names) ==
  LET t == roundLoopSTV(tabulateSTVStart(blts, sts, names), blts, names, sts)
  IN  [quota |-> t.quota, winners |-> t.winners, rounds |-> t.rounds,
       candidateVotes |-> summaryOf(t, names)]

RECURSIVE roundLoopFrac(_, _, _)
roundLoopFrac(t, names, sts) ==
  IF loopContinues(t, names, sts, maxRoundsFrac(names))
  THEN roundLoopFrac(tabulateFractionalSTVRound(t, names, sts), names, sts)
  ELSE t

\* lines 425-432: the returned result
tabulateFractionalSTV(blts, sts, names, tbq) ==
  LET t == roundLoopFrac(tabulateFractionalSTVStart(blts, sts, names, tbq), names, sts)
  IN  [quota |-> t.quota, winners |-> t.winners, rounds |-> t.rounds,
       candidateVotes |-> summaryOf(t, names)]

\* mutant: the count of an aggregated ballot ignored
RECURSIVE expandBallotsOnce(_)
expandBallotsOnce(cb) ==
  IF cb = <<>> THEN <<>>
  ELSE <<Head(cb).rankings>> \o expandBallotsOnce(Tail(cb))

\* expandBallots: each aggregated ballot repeated `count` times
RECURSIVE expandBallots(_)
expandBallots(cb) ==
  IF cb = <<>> THEN <<>>
  ELSE [i \in 1..Head(cb).count |-> Head(cb).rankings] \o expandBallots(Tail(cb))

tabulate(eng, blts, sts, names, tbq) ==
  IF eng = "whole" THEN tabulateSTV(blts, sts, names)
  ELSE tabulateFractionalSTV(blts, sts, names, tbq)

(***************************************************************************)
(* Reading the trace.                                                      *)
(***************************************************************************)
RECURSIVE SumSeq(_)
SumSeq(s) == IF s = <<>> THEN 0 ELSE Head(s) + SumSeq(Tail(s))

RECURSIVE RSumSeq(_)
RSumSeq(s) == IF s = <<>> THEN R(0) ELSE RAdd(Head(s), RSumSeq(Tail(s)))

AllocationSum(record) ==
  SumSeq([i \in DOMAIN record.allocations |-> record.allocations[i].votes])
AllocationSumFrac(record) ==
  RSumSeq([i \in DOMAIN record.allocations |-> record.allocations[i].votes])

IsListed(record, a) == \E i \in DOMAIN record.allocations : record.allocations[i].allocatee = a
VotesOf(record, a) ==
  record.allocations[CHOOSE i \in DOMAIN record.allocations :
                       record.allocations[i].allocatee = a].votes

Started == pc # "call"
Done == pc = "done"
\* the fill-by-default rule seated the last winners
FilledByDefault == pc = "break" \/ exitReason = "fill"
\* the final record the fractional engine adds for it
IsFillRecord(r) == engine = "frac" /\ FilledByDefault /\ r = Len(rounds)
ListedOnly == \A i \in DOMAIN ballots : Range(ballots[i]) \subseteq Range(candidateNames)
AsRat(v) == IF engine = "whole" THEN R(v) ELSE v
\* the result a finished call returned
Returned ==
  [quota |-> quota, winners |-> winners, rounds |-> rounds,
   candidateVotes |-> candidateVotes]
\* the aggregated ballots a grouped list expands from: one entry per run of
\* equal rank sequences, with the length of the run as its count
RECURSIVE Aggregated(_)
Aggregated(b) ==
  IF b = <<>> THEN <<>>
  ELSE LET rest == Aggregated(Tail(b))
       IN  IF rest # <<>> /\ Head(rest).rankings = Head(b)
           THEN <<[rankings |-> Head(b), count |-> Head(rest).count + 1]>> \o Tail(rest)
           ELSE <<[rankings |-> Head(b), count |-> 1]>> \o rest
\* every multiplicity times k
Scaled(cb, k) == [i \in DOMAIN cb |-> [cb[i] EXCEPT !.count = @ * k]]
\* the input of the call with every multiplicity times k
ScaledBallots(k) == expandBallots(Scaled(Aggregated(ballots), k))
\* round record s is round record r with every count times k
ScaledRecord(r, s, k) ==
  /\ Len(s.allocations) = Len(r.allocations)
  /\ \A i \in DOMAIN r.allocations :
       /\ s.allocations[i].allocatee = r.allocations[i].allocatee
       /\ AsRat(s.allocations[i].votes) = RMul(R(k), AsRat(r.allocations[i].votes))
  /\ Len(s.transfers) = Len(r.transfers)
  /\ \A i \in DOMAIN r.transfers :
       /\ s.transfers[i].from = r.transfers[i].from
       /\ s.transfers[i].to = r.transfers[i].to
       /\ AsRat(s.transfers[i].count) = RMul(R(k), AsRat(r.transfers[i].count))
\* result out is the returned result with every count times k
ScaledRounds(out, k) ==
  /\ Len(out.rounds) = Len(rounds)
  /\ \A r \in DOMAIN rounds : ScaledRecord(rounds[r], out.rounds[r], k)
SameRoundsOfElection(out) ==
  \A i \in DOMAIN candidateVotes :
    /\ out.candidateVotes[i].roundElected = candidateVotes[i].roundElected
    /\ out.candidateVotes[i].roundEliminated = candidateVotes[i].roundEliminated
\* the ballots b in the order p
Permuted(b, p) == [i \in DOMAIN b |-> b[p[i]]]

(***************************************************************************)
(* C1: whole-ballot engine, every round record: the allocations of the     *)
(* listed candidates plus Exhausted sum to the number of input ballots.    *)
(***************************************************************************)
C1_ConservationWhole ==
  engine = "whole" =>
    \A r \in DOMAIN rounds : AllocationSum(rounds[r]) = Len(ballots)

C1_Witness ==
  /\ engine = "whole" /\ Done /\ Len(rounds) = 2
  /\ \E i \in DOMAIN rounds[1].transfers :
       rounds[1].transfers[i].type = "surplus" /\ rounds[1].transfers[i].to = X
  /\ rounds[2].eliminatedThisRound # <<>>
  /\ VotesOf(rounds[2], X) > 0

(***************************************************************************)
(* C2: fractional engine, every round record including the final one: the *)
(* allocations plus Exhausted differ from N by less than N / 1000000.      *)
(***************************************************************************)
C2_ConservationFrac ==
  engine = "frac" =>
    \A r \in DOMAIN rounds :
      RLt(RAbs(RSub(AllocationSumFrac(rounds[r]), R(Len(ballots)))),
          <<Len(ballots), 1000000>>)

(***************************************************************************)
(* C3: with at least `seats` candidates, only listed candidates ranked and *)
(* the default quota basis, the winner list never exceeds `seats` and on   *)
(* return holds exactly `seats` distinct candidates.                       *)
(***************************************************************************)
C3_WinnerCount ==
  (Len(candidateNames) >= seats /\ ListedOnly /\ totalBallotsForQuota = Unsupplied) =>
    /\ Len(winners) <= seats
    /\ Done => /\ Len(winners) = seats
               /\ Cardinality(Range(winners)) = seats

C3_Witness ==
  /\ Done /\ engine = "frac" /\ seats = 2 /\ Len(candidateNames) = 3
  /\ ListedOnly /\ totalBallotsForQuota = Unsupplied
  /\ Len(winners) = 2
  /\ \E n \in DOMAIN candidateMap : candidateMap[n].status = "eliminated"
  /\ exitReason = "fill"

(***************************************************************************)
(* C4: the returned quota is the Droop quota of the quota basis: the       *)
(* smallest integer q with q * (seats + 1) > basis, the basis being the    *)
(* number of input ballots or the supplied totalBallotsForQuota.           *)
(***************************************************************************)
C4_DroopQuota ==
  Started =>
    LET basis == IF engine = "frac" /\ totalBallotsForQuota # Unsupplied
                 THEN totalBallotsForQuota ELSE Len(ballots)
    IN  /\ quota * (seats + 1) > basis
        /\ (quota - 1) * (seats + 1) <= basis

C4_Witness ==
  /\ Done /\ engine = "frac" /\ totalBallotsForQuota = 4 /\ Len(ballots) = 3
  /\ seats = 1 /\ quota = 3

(***************************************************************************)
(* C5 as stated: a candidate with round_elected = r holds exactly the      *)
(* quota in every round record r' >= r, round r included.                  *)
(***************************************************************************)
C5_PinnedFromElectionRound ==
  \A n \in DOMAIN candidateMap :
    LET c == candidateMap[n] IN
    c.roundElected # NoRound =>
      \A r \in DOMAIN rounds :
        r >= c.roundElected => AsRat(VotesOf(rounds[r], c.index)) = R(quota)

(***************************************************************************)
(* C5 amended: a candidate elected by reaching quota in round r holds at   *)
(* least the quota in record r (the snapshot taken before the election)    *)
(* and exactly the quota in every later record.                            *)
(***************************************************************************)
C5_PinnedAfterElectionRound ==
  \A n \in DOMAIN candidateMap :
    LET c == candidateMap[n] IN
    (c.roundElected \in DOMAIN rounds /\ ~IsFillRecord(c.roundElected)) =>
      /\ RLe(R(quota), AsRat(VotesOf(rounds[c.roundElected], c.index)))
      /\ \A r \in DOMAIN rounds :
           r > c.roundElected => AsRat(VotesOf(rounds[r], c.index)) = R(quota)

C5_Witness ==
  /\ Done /\ engine = "whole" /\ Len(rounds) = 2
  /\ \E n \in DOMAIN candidateMap :
       /\ candidateMap[n].roundElected = 1
       /\ VotesOf(rounds[1], candidateMap[n].index) > quota
       /\ VotesOf(rounds[2], candidateMap[n].index) = quota
       /\ rounds[1].transfers # <<>>

(***************************************************************************)
(* C6: every candidate has one status, the Map of statuses and the         *)
(* candidate records agree, and a status only ever changes from active to  *)
(* elected or from active to eliminated.                                   *)
(***************************************************************************)
StatusConsistent ==
  \A n \in DOMAIN candidateMap :
    /\ candidateMap[n].status \in {"active", "elected", "eliminated"}
    /\ candidateStatus[n] = candidateMap[n].status
    /\ (candidateMap[n].status = "elected") = (candidateMap[n].roundElected # NoRound)
    /\ (candidateMap[n].status = "eliminated") = (candidateMap[n].roundEliminated # NoRound)

StatusStep ==
  \A n \in DOMAIN candidateMap :
    candidateMap'[n].status # candidateMap[n].status =>
      /\ candidateMap[n].status = "active"
      /\ candidateMap'[n].status \in {"elected", "eliminated"}

C6_StatusMonotone == [](StatusConsistent) /\ [][StatusStep]_vars

C6_Witness ==
  /\ Done /\ Len(rounds) = 3
  /\ \E n, m \in DOMAIN candidateMap :
       /\ candidateMap[n].status = "elected" /\ candidateMap[n].roundElected = 1
       /\ candidateMap[m].status = "eliminated" /\ candidateMap[m].roundEliminated = 2

(***************************************************************************)
(* C7: the Exhausted allocation never decreases from one round record to   *)
(* the next.                                                               *)
(***************************************************************************)
C7_ExhaustedMonotone ==
  \A r \in DOMAIN rounds :
    r > 1 => RLe(AsRat(VotesOf(rounds[r - 1], X)), AsRat(VotesOf(rounds[r], X)))

C7_Witness ==
  /\ Len(rounds) = 3
  /\ RLt(R(0), AsRat(VotesOf(rounds[2], X)))
  /\ RLt(AsRat(VotesOf(rounds[2], X)), AsRat(VotesOf(rounds[3], X)))

(***************************************************************************)
(* C8 as stated: supplying the same ballots in another order gives the     *)
(* same result in both engines: the same round records, the same winner    *)
(* list and the same per-candidate summary.                                *)
(***************************************************************************)
C8_PermutationInvariant ==
  Done =>
    \A p \in Permutations(DOMAIN ballots) :
      tabulate(engine, Permuted(ballots, p), seats, candidateNames,
               totalBallotsForQuota) = Returned

(***************************************************************************)
(* C9 as stated: tabulating the ballots with every multiplicity times k    *)
(* multiplies the quota, every allocation and every transfer count by k    *)
(* and leaves every round_elected and round_eliminated unchanged.          *)
(***************************************************************************)
C9_ScalingMultiplies ==
  (Done /\ totalBallotsForQuota = Unsupplied) =>
    \A k \in 2..MaxScale :
      LET out == tabulate(engine, ScaledBallots(k), seats, candidateNames, Unsupplied)
      IN  /\ out.quota = k * quota
          /\ ScaledRounds(out, k)
          /\ SameRoundsOfElection(out)

(***************************************************************************)
(* C9 amended: with every multiplicity times k the number of ballots and   *)
(* every allocation of the first round record are multiplied by k, and the *)
(* quota becomes the Droop quota of k * N, which is more than k * (Q - 1)  *)
(* and at most k * Q.  Whenever it equals k * Q, the whole-ballot engine   *)
(* multiplies every allocation and transfer count by k, elects the same    *)
(* winners and leaves every round_elected and round_eliminated unchanged.  *)
(***************************************************************************)
C9_ScalingDroop ==
  (Done /\ totalBallotsForQuota = Unsupplied) =>
    \A k \in 2..MaxScale :
      LET scaled == ScaledBallots(k)
          start == IF engine = "whole"
                   THEN tabulateSTVStart(scaled, seats, candidateNames)
                   ELSE tabulateFractionalSTVStart(scaled, seats, candidateNames, Unsupplied)
          first == IF engine = "whole"
                   THEN recordAllocations(start, candidateNames)
                   ELSE recordAllocationsFrac(start, candidateNames)
      IN  /\ Len(scaled) = k * Len(ballots)
          /\ start.quota * (seats + 1) > k * Len(ballots)
          /\ (start.quota - 1) * (seats + 1) <= k * Len(ballots)
          /\ k * (quota - 1) < start.quota /\ start.quota <= k * quota
          /\ rounds # <<>> =>
               ScaledRecord([rounds[1] EXCEPT !.transfers = <<>>],
                            [allocations |-> first, transfers |-> <<>>], k)
          /\ (engine = "whole" /\ start.quota = k * quota) =>
               LET out == tabulateSTV(scaled, seats, candidateNames)
               IN  /\ ScaledRounds(out, k)
                   /\ SameRoundsOfElection(out)
                   /\ out.winners = winners

C9_Witness ==
  /\ Done /\ engine = "whole" /\ totalBallotsForQuota = Unsupplied
  /\ expandBallots(Aggregated(ballots)) = ballots
  /\ Len(Aggregated(ballots)) = 2 /\ Len(ballots) = 2 /\ seats = 2
  /\ tabulateSTV(ScaledBallots(2), seats, candidateNames).quota = 2 * quota
  /\ Len(rounds) = 2
  /\ \E i \in DOMAIN rounds[1].transfers :
       rounds[1].transfers[i].type = "surplus" /\ rounds[1].transfers[i].to # X

(***************************************************************************)
(* C10: every call returns, no trace holds more than 2 * |candidates|      *)
(* round records, and the round loop is never left because the round       *)
(* number passed the safety limit.                                         *)
(***************************************************************************)
C10_Termination ==
  /\ <>Done
  /\ [](Len(rounds) <= 2 * Len(candidateNames))
  /\ [](Done => exitReason # "limit")

C10_Witness ==
  /\ Done /\ engine = "frac" /\ Len(candidateNames) = 3
  /\ Len(rounds) = 3 /\ exitReason = "fill"

(***************************************************************************)
(* Reading a scenario's trace.                                             *)
(***************************************************************************)
IsScenario(e, b, sts, c) ==
  engine = e /\ ballots = b /\ seats = sts /\ candidateNames = c
Idx(n) == candidateMap[n].index
\* record r holds v votes for candidate n
Holds(r, n, v) == IsListed(rounds[r], Idx(n)) /\ AsRat(VotesOf(rounds[r], Idx(n))) = v
\* record r lists a transfer of v from candidate f to candidate t
Transfers(r, f, t, v) ==
  \E i \in DOMAIN rounds[r].transfers :
    /\ rounds[r].transfers[i].from = Idx(f)
    /\ rounds[r].transfers[i].to = Idx(t)
    /\ AsRat(rounds[r].transfers[i].count) = v

(***************************************************************************)
(* C11 as stated: scenario S2 in the whole-ballot engine: quota 4; round 1 *)
(* A holds 10, is elected and 6 surplus ballots go to B; round 2 B holds   *)
(* 6, is elected and its surplus of 2 goes to C, so that C holds 2; the    *)
(* winners are [A, B].                                                     *)
(***************************************************************************)
C11_ScenarioS2 ==
  (Done /\ IsScenario("whole", BallotsS2, 2, <<"A", "B", "C", "D">>)) =>
    /\ quota = 4
    /\ Holds(1, "A", R(10)) /\ rounds[1].electedThisRound = <<Idx("A")>>
    /\ Transfers(1, "A", "B", R(6))
    /\ Len(rounds) >= 2
    /\ Holds(2, "B", R(6)) /\ rounds[2].electedThisRound = <<Idx("B")>>
    /\ Transfers(2, "B", "C", R(2))
    /\ candidateMap["C"].votes = 2
    /\ winners = <<Idx("A"), Idx("B")>>

(***************************************************************************)
(* C11 amended: as above, but B's surplus of 2 is not transferred, no seat *)
(* being left to fill: round 2 records no transfer, B keeps its 6 ballots  *)
(* and is set to the quota, C holds 0 in both records and at the end, and  *)
(* the trace has two records.                                              *)
(***************************************************************************)
C11_ScenarioS2NoLastTransfer ==
  (Done /\ IsScenario("whole", BallotsS2, 2, <<"A", "B", "C", "D">>)) =>
    /\ quota = 4
    /\ Len(rounds) = 2
    /\ Holds(1, "A", R(10)) /\ rounds[1].electedThisRound = <<Idx("A")>>
    /\ Transfers(1, "A", "B", R(6)) /\ Len(rounds[1].transfers) = 1
    /\ Holds(2, "A", R(4))
    /\ Holds(2, "B", R(6)) /\ rounds[2].electedThisRound = <<Idx("B")>>
    /\ rounds[2].transfers = <<>>
    /\ Holds(1, "C", R(0)) /\ Holds(2, "C", R(0))
    /\ candidateMap["B"].votes = 4 /\ Len(candidateBallots["B"]) = 6
    /\ candidateMap["C"].votes = 0
    /\ winners = <<Idx("A"), Idx("B")>>

C11_Witness ==
  /\ Done /\ IsScenario("whole", BallotsS2, 2, <<"A", "B", "C", "D">>)
  /\ Len(rounds) = 2 /\ exitReason = "seats"
  /\ candidateMap["B"].roundElected = 2

(***************************************************************************)
(* C12 as stated: N identical ballots A>B>C, candidates [A,B,C], seats 2,  *)
(* either engine: A is elected in round 1 and its whole surplus goes to B, *)
(* B is elected in round 2 holding exactly the quota, C is never elected.  *)
(***************************************************************************)
IsB3 ==
  /\ \E n \in 1..MaxIdentical : ballots = BallotsB3(n)
  /\ seats = 2 /\ candidateNames = <<"A", "B", "C">>

C12_IdenticalBallots ==
  (Done /\ IsB3) =>
    /\ candidateMap["A"].roundElected = 1
    /\ Len(ballots) > quota => Transfers(1, "A", "B", R(Len(ballots) - quota))
    /\ candidateMap["B"].roundElected = 2
    /\ Len(rounds) >= 2 /\ Holds(2, "B", R(quota))
    /\ candidateMap["C"].roundElected = NoRound

(***************************************************************************)
(* C12 amended: A is elected in round 1 and its whole surplus N - Q goes   *)
(* to B and nowhere else.  For N = 2 and for N >= 4 that surplus is at     *)
(* least Q: B is elected in round 2, shown with N - Q votes in record 2    *)
(* and set to Q afterwards, and C is neither elected nor eliminated.  For  *)
(* N = 3 B stays below the quota, C is eliminated in round 2 and B is      *)
(* seated by default.  For N = 1 B and C tie at 0, B is eliminated in      *)
(* round 2 and C is seated by default.                                     *)
(***************************************************************************)
C12_IdenticalBallotsByCount ==
  (Done /\ IsB3) =>
    LET n == Len(ballots) IN
    /\ candidateMap["A"].roundElected = 1
    /\ Holds(1, "A", R(n)) /\ Holds(1, "B", R(0)) /\ Holds(1, "C", R(0))
    /\ IF n > quota
       THEN Transfers(1, "A", "B", R(n - quota)) /\ Len(rounds[1].transfers) = 1
       ELSE rounds[1].transfers = <<>>
    /\ Len(rounds) >= 2 /\ Holds(2, "A", R(quota)) /\ Holds(2, "B", R(n - quota))
    /\ (n = 2 \/ n >= 4) =>
         /\ n - quota >= quota
         /\ candidateMap["B"].roundElected = 2
         /\ AsRat(candidateMap["B"].votes) = R(quota)
         /\ candidateMap["C"].roundElected = NoRound
         /\ candidateMap["C"].roundEliminated = NoRound
         /\ winners = <<Idx("A"), Idx("B")>>
    /\ n = 3 =>
         /\ n - quota < quota
         /\ candidateMap["C"].roundEliminated = 2
         /\ candidateMap["B"].roundElected = 3
         /\ FilledByDefault
         /\ winners = <<Idx("A"), Idx("B")>>
    /\ n = 1 =>
         /\ candidateMap["B"].roundEliminated = 2
         /\ candidateMap["B"].roundElected = NoRound
         /\ candidateMap["C"].roundElected = 3
         /\ FilledByDefault
         /\ winners = <<Idx("A"), Idx("C")>>

C12_Witness ==
  /\ Done /\ IsB3 /\ engine = "frac" /\ Len(ballots) = 5
  /\ quota = 2 /\ Transfers(1, "A", "B", R(3))
  /\ candidateMap["B"].roundElected = 2

(***************************************************************************)
(* C13 as stated: every ballot ranks exactly one candidate, each ballot a  *)
(* different one, and there are at most `seats` candidates: the trace has  *)
(* exactly one round, every candidate has round_elected = 1 and no         *)
(* transfer is recorded.                                                   *)
(***************************************************************************)
IsB2 ==
  /\ Len(candidateNames) <= seats
  /\ \A i \in DOMAIN ballots :
       Len(ballots[i]) = 1 /\ ballots[i][1] \in Range(candidateNames)
  /\ \A i, j \in DOMAIN ballots : i # j => ballots[i] # ballots[j]
\* candidate n received a ballot
Voted(n) == \E i \in DOMAIN ballots : ballots[i] = <<n>>
\* the first listed candidate that received a ballot
FirstVoted ==
  candidateNames[CHOOSE i \in DOMAIN candidateNames :
                   /\ Voted(candidateNames[i])
                   /\ \A j \in 1..(i - 1) : ~Voted(candidateNames[j])]

C13_BulletVotes ==
  (Done /\ IsB2) =>
    /\ Len(rounds) = 1
    /\ \A n \in Range(candidateNames) : candidateMap[n].roundElected = 1
    /\ rounds[1].transfers = <<>>

(***************************************************************************)
(* C13 amended: the quota is 1, every candidate is elected and no record   *)
(* holds a transfer.  The whole-ballot engine elects every candidate that  *)
(* received a ballot in round 1 and its trace has one record; the          *)
(* fractional engine elects in round 1 only the first listed candidate     *)
(* that received a ballot.  All other candidates are seated by default     *)
(* with round_elected = 2, for which the fractional engine adds a second   *)
(* record.                                                                 *)
(***************************************************************************)
C13_BulletVotesByEngine ==
  (Done /\ IsB2) =>
    /\ quota = 1
    /\ \A r \in DOMAIN rounds : rounds[r].transfers = <<>>
    /\ Range(winners) = { Idx(n) : n \in Range(candidateNames) }
    /\ \A n \in Range(candidateNames) :
         /\ candidateMap[n].roundEliminated = NoRound
         /\ candidateMap[n].roundElected =
              IF engine = "whole"
              THEN (IF Voted(n) THEN 1 ELSE 2)
              ELSE (IF n = FirstVoted THEN 1 ELSE 2)
    /\ Len(rounds) = IF engine = "frac" /\ Len(candidateNames) > 1 THEN 2 ELSE 1

C13_Witness ==
  /\ Done /\ IsB2 /\ engine = "frac"
  /\ Len(candidateNames) = 3 /\ Len(ballots) = 3 /\ seats = 3
  /\ Len(rounds) = 2 /\ Len(winners) = 3

(***************************************************************************)
(* C14: scenario S4 in the fractional engine: quota 6; round 1 holds       *)
(* A = 12, B = 0, C = 3; A is elected with transfer fraction 1/2, B and C  *)
(* each receive 3 and A is set to 6; round 2 holds B = 3, C = 6 and C is   *)
(* elected; the winners are [A, C].                                        *)
(***************************************************************************)
C14_ScenarioS4 ==
  (Done /\ IsScenario("frac", BallotsS4, 2, <<"A", "B", "C">>)) =>
    /\ quota = 6
    /\ Len(rounds) = 2
    /\ Holds(1, "A", R(12)) /\ Holds(1, "B", R(0)) /\ Holds(1, "C", R(3))
    /\ rounds[1].electedThisRound = <<Idx("A")>>
    /\ RDiv(RSub(R(12), R(quota)), R(12)) = <<1, 2>>
    /\ Transfers(1, "A", "B", R(3)) /\ Transfers(1, "A", "C", R(3))
    /\ Len(rounds[1].transfers) = 2
    /\ Holds(2, "A", R(6)) /\ Holds(2, "B", R(3)) /\ Holds(2, "C", R(6))
    /\ rounds[2].electedThisRound = <<Idx("C")>>
    /\ winners = <<Idx("A"), Idx("C")>>

C14_Witness ==
  /\ Done /\ IsScenario("frac", BallotsS4, 2, <<"A", "B", "C">>)
  /\ candidateMap["A"].roundElected = 1 /\ candidateMap["C"].roundElected = 2
  /\ \A i \in 1..12 : ballotStates[i].weight = <<1, 2>>

(***************************************************************************)
(* C15: in the returned summary, every candidate that was not seated by    *)
(* the fill-by-default rule has at most one of roundElected and            *)
(* roundEliminated set.                                                    *)
(***************************************************************************)
\* the fill-by-default rule stamps the round number the loop was left with
SeatedByDefault(i) ==
  FilledByDefault /\ candidateVotes[i].roundElected = roundNumber

C15_ElectedOrEliminated ==
  Done =>
    \A i \in DOMAIN candidateVotes :
      ~SeatedByDefault(i) =>
        ~(/\ candidateVotes[i].roundElected # NoRound
          /\ candidateVotes[i].roundEliminated # NoRound)

C15_Witness ==
  /\ Done
  /\ \E i, j \in DOMAIN candidateVotes :
       /\ candidateVotes[i].roundEliminated = 1
       /\ candidateVotes[i].roundElected = NoRound
       /\ candidateVotes[j].roundElected = 2 /\ ~SeatedByDefault(j)
       /\ candidateVotes[j].roundEliminated = NoRound

(***************************************************************************)
(* Reading the tables of a report.                                         *)
(***************************************************************************)
Tabled == tables # << >>
\* the ranks at which ballot i names the candidate
RanksOf(i, name) == { r \in DOMAIN ballots[i] : ballots[i][r] = name }
\* the cell of row name a and column name b
PairCell(t, a, b) ==
  t.entries[nameToIndex(candidateNames, a) + 1][nameToIndex(candidateNames, b) + 1]
ExhaustedCell(t, a) ==
  t.entries[nameToIndex(candidateNames, a) + 1][Len(candidateNames) + 1]
\* frac is numerator/denominator when the denominator is positive, else 0
FracOf(e) ==
  IF e.denominator > 0
  THEN e.frac[1] * e.denominator = e.numerator * e.frac[2]
  ELSE e.frac = <<0, 1>>
IsS1 == ballots = BallotsS1 /\ candidateNames = CandidatesS1

(***************************************************************************)
(* C16: in the pairwise-preference table, for distinct candidates A and B  *)
(* the denominator of cell (A,B) is the number of ballots that rank at     *)
(* least one of A and B, and the numerator is the number of those ballots  *)
(* on which A appears and B does not, or both appear and A is ranked       *)
(* before B; every diagonal entry is (0, 0, 0); frac is numerator over     *)
(* denominator when the denominator is positive and 0 otherwise.  On the   *)
(* S1 ballots cell (Alice,Bob) is 65/100 and cell (Bob,Alice) is 35/100.   *)
(***************************************************************************)
C16_PairwisePreferences ==
  Tabled =>
    LET P == tables.pairwisePreferences
        listed == Range(candidateNames)
        ranksOne(A, B) ==
          { i \in DOMAIN ballots : RanksOf(i, A) # {} \/ RanksOf(i, B) # {} }
        before(A, B) ==
          { i \in ranksOne(A, B) :
              \/ RanksOf(i, A) # {} /\ RanksOf(i, B) = {}
              \/ \E r \in RanksOf(i, A) : \E q \in RanksOf(i, B) : r < q }
    IN  /\ Len(P.entries) = Len(candidateNames)
        /\ \A A \in listed : Len(P.entries[nameToIndex(candidateNames, A) + 1])
                               = Len(candidateNames)
        /\ \A A, B \in listed :
             LET e == PairCell(P, A, B)
             IN  IF A = B
                 THEN e = [frac |-> <<0, 1>>, numerator |-> 0, denominator |-> 0]
                 ELSE /\ e.denominator = Cardinality(ranksOne(A, B))
                      /\ e.numerator = Cardinality(before(A, B))
                      /\ FracOf(e)
        /\ IsS1 =>
             /\ PairCell(P, "Alice", "Bob") =
                  [frac |-> <<13, 20>>, numerator |-> 65, denominator |-> 100]
             /\ PairCell(P, "Bob", "Alice") =
                  [frac |-> <<7, 20>>, numerator |-> 35, denominator |-> 100]

C16_Witness ==
  /\ Tabled /\ IsS1
  /\ PairCell(tables.pairwisePreferences, "Alice", "Bob").numerator = 65
  /\ PairCell(tables.pairwisePreferences, "Carol", "Carol").denominator = 0

(***************************************************************************)
(* C17: pairwise totality.  For distinct candidates A and B every ballot   *)
(* counted in the denominator of cell (A,B) is counted in exactly one of   *)
(* the numerators of (A,B) and (B,A), so the two numerators add up to the  *)
(* denominator of (A,B), which is also the denominator of (B,A).           *)
(***************************************************************************)
C17_PairwiseTotality ==
  Tabled =>
    LET P == tables.pairwisePreferences
        rank(i, A) == rankOf(ballots[i], candidateNames, nameToIndex(candidateNames, A))
    IN  \A A, B \in Range(candidateNames) :
          A # B =>
            /\ PairCell(P, A, B).numerator + PairCell(P, B, A).numerator
                 = PairCell(P, A, B).denominator
            /\ PairCell(P, A, B).denominator = PairCell(P, B, A).denominator
            /\ \A i \in DOMAIN ballots :
                 RanksOf(i, A) # {} \/ RanksOf(i, B) # {} =>
                   prefers(rank(i, A), rank(i, B)) # prefers(rank(i, B), rank(i, A))

C17_Witness ==
  /\ Tabled
  /\ \E A, B \in Range(candidateNames) :
       /\ A # B
       /\ PairCell(tables.pairwisePreferences, A, B).numerator > 0
       /\ PairCell(tables.pairwisePreferences, B, A).numerator > 0
       /\ \E i \in DOMAIN ballots : RanksOf(i, A) # {} /\ RanksOf(i, B) = {}
       /\ \E i \in DOMAIN ballots : RanksOf(i, A) = {} /\ RanksOf(i, B) = {}

(***************************************************************************)
(* C18: in the first-alternate table every cell of row A, each candidate   *)
(* column and the Exhausted column, carries the same denominator: the      *)
(* number of ballots whose first choice is A.                              *)
(***************************************************************************)
FirstChoiceCount(A) ==
  Cardinality({ i \in DOMAIN ballots : ballots[i] # << >> /\ ballots[i][1] = A })

C18_FirstAlternateDenominators ==
  Tabled =>
    \A A \in Range(candidateNames) :
      /\ \A c \in Range(candidateNames) :
           PairCell(tables.firstAlternate, A, c).denominator = FirstChoiceCount(A)
      /\ ExhaustedCell(tables.firstAlternate, A).denominator = FirstChoiceCount(A)

\* C18 as the code has it: every cell of row A outside the diagonal, each
\* other candidate column and the Exhausted column, carries the number of
\* ballots whose first choice is A as its denominator, and the diagonal
\* cell (A,A) is (0, 0, 0).
C18_FirstAlternateOffDiagonal ==
  Tabled =>
    \A A \in Range(candidateNames) :
      /\ \A c \in Range(candidateNames) \ {A} :
           PairCell(tables.firstAlternate, A, c).denominator = FirstChoiceCount(A)
      /\ ExhaustedCell(tables.firstAlternate, A).denominator = FirstChoiceCount(A)
      /\ PairCell(tables.firstAlternate, A, A)
           = [frac |-> <<0, 1>>, numerator |-> 0, denominator |-> 0]

C18_Witness ==
  /\ Tabled
  /\ \E A, c \in Range(candidateNames) :
       /\ A # c
       /\ PairCell(tables.firstAlternate, A, c).denominator = 2
       /\ ExhaustedCell(tables.firstAlternate, A).denominator = 2
       /\ PairCell(tables.firstAlternate, A, A).denominator = 0

(***************************************************************************)
(* C19: in the first-alternate table, for first choice A and a candidate   *)
(* column c other than A, the numerator is the number of ballots whose     *)
(* first rank is A and second rank is c; the numerator of the Exhausted    *)
(* column is the number of ballots whose first rank is A and that have no  *)
(* second rank or a second rank that is not a listed candidate.  On the S1 *)
(* ballots row Alice has denominator 40, numerator 40 in column Bob and    *)
(* numerator 0 in column Exhausted.                                        *)
(***************************************************************************)
C19_FirstAlternateNumerators ==
  Tabled =>
    LET F == tables.firstAlternate
        firstIs(A) == { i \in DOMAIN ballots : ballots[i] # << >> /\ ballots[i][1] = A }
    IN  /\ \A A \in Range(candidateNames) :
             /\ \A c \in Range(candidateNames) \ {A} :
                  PairCell(F, A, c).numerator =
                    Cardinality({ i \in firstIs(A) :
                                    Len(ballots[i]) >= 2 /\ ballots[i][2] = c })
             /\ ExhaustedCell(F, A).numerator =
                  Cardinality({ i \in firstIs(A) :
                                  \/ Len(ballots[i]) = 1
                                  \/ ballots[i][2] \notin Range(candidateNames) })
        /\ IsS1 =>
             /\ PairCell(F, "Alice", "Bob").denominator = 40
             /\ PairCell(F, "Alice", "Carol").denominator = 40
             /\ ExhaustedCell(F, "Alice").denominator = 40
             /\ PairCell(F, "Alice", "Bob").numerator = 40
             /\ ExhaustedCell(F, "Alice").numerator = 0

C19_Witness ==
  /\ Tabled /\ IsS1
  /\ PairCell(tables.firstAlternate, "Alice", "Bob").numerator = 40
  /\ PairCell(tables.firstAlternate, "Carol", "Alice").numerator = 25

(***************************************************************************)
(* C20: in the first-to-final table a ballot's final candidate is the      *)
(* earliest rank on the ballot whose candidate is not among the candidates *)
(* eliminated in the round trace, or Exhausted when there is none; the     *)
(* numerator of cell (A,c) is the number of ballots with first choice A    *)
(* and final c, every denominator in row A is the first-choice count of A, *)
(* and the numerators of a row add up to the row's denominator.            *)
(***************************************************************************)
HasFirstFinal == Tabled /\ tables.firstFinal # << >>
\* the listed candidates that a round of the trace eliminated
EliminatedInTrace ==
  { c \in Range(candidateNames) :
      \E r \in DOMAIN rounds :
        nameToIndex(candidateNames, c) \in Range(rounds[r].eliminatedThisRound) }
\* the final candidate of ballot i when the set out is eliminated, "X" for
\* Exhausted
FinalCandidate(i, out) ==
  LET standing == { r \in DOMAIN ballots[i] :
                      ballots[i][r] \in Range(candidateNames) \ out }
  IN  IF standing = {} THEN "X"
      ELSE ballots[i][CHOOSE r \in standing : \A q \in standing : r <= q]

C20_FirstFinal ==
  HasFirstFinal =>
    LET T == tables.firstFinal
        out == EliminatedInTrace
        final == [i \in DOMAIN ballots |-> FinalCandidate(i, out)]
        firstIs(A) == { i \in DOMAIN ballots : ballots[i] # << >> /\ ballots[i][1] = A }
    IN  \A A \in Range(candidateNames) :
          /\ \A c \in Range(candidateNames) :
               /\ PairCell(T, A, c).numerator =
                    Cardinality({ i \in firstIs(A) : final[i] = c })
               /\ PairCell(T, A, c).denominator = Cardinality(firstIs(A))
          /\ ExhaustedCell(T, A).numerator =
               Cardinality({ i \in firstIs(A) : final[i] = "X" })
          /\ ExhaustedCell(T, A).denominator = Cardinality(firstIs(A))
          /\ SumSeq([b \in 1..(Len(candidateNames) + 1) |->
                       T.entries[nameToIndex(candidateNames, A) + 1][b].numerator])
               = Cardinality(firstIs(A))

C20_Witness ==
  /\ HasFirstFinal
  /\ \E A, c \in Range(candidateNames) :
       /\ A # c
       /\ A \in EliminatedInTrace
       /\ PairCell(tables.firstFinal, A, c).numerator > 0
       /\ PairCell(tables.firstFinal, A, A).numerator = 0
       /\ PairCell(tables.firstFinal, A, A).denominator > 0

(***************************************************************************)
(* C21: for the ranking distribution computed from any list of ballots,    *)
(* the counts of overallDistribution over all depths add up to             *)
(* totalBallots.                                                           *)
(***************************************************************************)
\* the sum of a distribution over the depths a ballot can have
DepthSum(dist) ==
  SumSeq([k \in 1..Cardinality(Names \cup ScenarioNames) |->
            IF k \in DOMAIN dist THEN dist[k] ELSE 0])
\* the ballots that rank a listed candidate
RanksListed ==
  { i \in DOMAIN ballots : Range(ballots[i]) \cap Range(candidateNames) # {} }

C21_DepthTotals ==
  Tabled =>
    DepthSum(tables.rankingDistribution.overallDistribution)
      = tables.rankingDistribution.totalBallots

\* C21 as the code has it: totalBallots is the number of ballots passed, the
\* counts of overallDistribution add up to the number of ballots that rank
\* at least one listed candidate, at a depth between 1 and the number of
\* candidates, and the two agree when every ballot ranks a listed candidate.
C21_DepthTotalsOfRanking ==
  Tabled =>
    LET D == tables.rankingDistribution
    IN  /\ D.totalBallots = Len(ballots)
        /\ DOMAIN D.overallDistribution \subseteq 1..Len(candidateNames)
        /\ DepthSum(D.overallDistribution) = Cardinality(RanksListed)
        /\ RanksListed = DOMAIN ballots =>
             DepthSum(D.overallDistribution) = D.totalBallots

C21_Witness ==
  /\ Tabled
  /\ Len(ballots) = 3
  /\ Cardinality(RanksListed) = 2
  /\ DOMAIN tables.rankingDistribution.overallDistribution = {1, 2}

(***************************************************************************)
(* C22: a tabulation called with seats < 1 or with an empty candidate list *)
(* ends in an InvalidContest error surfaced to the caller and returns no   *)
(* winners, rounds or quota: such a call never returns a result.           *)
(***************************************************************************)
InvalidContest == seats < 1 \/ candidateNames = << >>

C22_InvalidContestRejected == InvalidContest => ~Done

(***************************************************************************)
(* C23: a ballot that references a candidate outside the candidate table   *)
(* makes tabulation abort with an InconsistentBallot error: the call       *)
(* returns no result, and such a ballot is never counted for a candidate,  *)
(* skipped over or exhausted.                                              *)
(***************************************************************************)
\* the ballots that rank a name the candidate list does not hold
Inconsistent ==
  { i \in DOMAIN ballots : ~(Range(ballots[i]) \subseteq Range(candidateNames)) }

C23_InconsistentBallotRejected ==
  /\ Inconsistent # {} => ~Done
  /\ \A i \in Inconsistent :
       /\ i \notin Range(exhaustedBallots)
       /\ \A n \in DOMAIN candidateBallots : i \notin Range(candidateBallots[n])

(***************************************************************************)
(* C24: whole-ballot engine.  When the surplus of an elected candidate is  *)
(* transferred, the ballots that leave the pile are the most recently      *)
(* received ones and the ballots kept are the earliest received: the pile  *)
(* after the round starts with the same ballots as the pile before it.     *)
(***************************************************************************)
\* the candidates a step of the round loop elects
ElectedInStep ==
  { n \in DOMAIN candidateStatus :
      candidateStatus[n] = "active" /\ candidateStatus'[n] = "elected" }
\* the piles p and q hold the same ballots in the positions both have
SameStart(p, q) == \A k \in 1..Min(Len(p), Len(q)) : p[k] = q[k]

C24_SurplusFromTop ==
  [][ engine = "whole" /\ pc = "loop" =>
        \A n \in ElectedInStep :
          SameStart(candidateBallots'[n], candidateBallots[n]) ]_vars

(***************************************************************************)
(* C25: whole-ballot engine.  When several candidates are at or above      *)
(* quota in the same round, all of them are elected before any surplus is  *)
(* transferred: no surplus transfer of a round record is credited to a     *)
(* candidate that the same record lists as elected.                        *)
(***************************************************************************)
C25_ElectedBeforeTransfer ==
  engine = "whole" =>
    \A r \in DOMAIN rounds :
      \A i \in DOMAIN rounds[r].transfers :
        rounds[r].transfers[i].type = "surplus" =>
          rounds[r].transfers[i].to \notin Range(rounds[r].electedThisRound)


(***************************************************************************)
(* C26: in the fractional engine, at the start of every round, the vote    *)
(* total of each active candidate is the sum of the current weights of the *)
(* ballots on that candidate's pile.                                       *)
(***************************************************************************)
PileWeight(n) ==
  RSumSeq([i \in DOMAIN candidateBallots[n] |->
             ballotStates[candidateBallots[n][i]].weight])

RoundStarts(maxRounds) ==
  /\ pc = "loop"
  /\ loopContinues(Current, candidateNames, seats, maxRounds)

C26_VotesArePileWeights ==
  (engine = "frac" /\ RoundStarts(maxRoundsFrac(candidateNames))) =>
    \A n \in Range(candidateNames) :
      candidateStatus[n] = "active" => candidateMap[n].votes = PileWeight(n)


(***************************************************************************)
(* C27: both engines: for consecutive round records r and r + 1 and every  *)
(* allocatee a listed in record r + 1 (candidates and Exhausted),          *)
(* votes[r+1][a] = votes[r][a] + the counts of the transfers of round r to *)
(* a - the counts of the transfers of round r from a.                      *)
(***************************************************************************)
TransfersTo(record, a) ==
  RSumSeq([i \in DOMAIN record.transfers |->
             IF record.transfers[i].to = a
             THEN AsRat(record.transfers[i].count) ELSE R(0)])

TransfersFrom(record, a) ==
  RSumSeq([i \in DOMAIN record.transfers |->
             IF record.transfers[i].from = a
             THEN AsRat(record.transfers[i].count) ELSE R(0)])

Reconstructed(r, a) ==
  RSub(RAdd(IF IsListed(rounds[r], a) THEN AsRat(VotesOf(rounds[r], a)) ELSE R(0),
            TransfersTo(rounds[r], a)),
       TransfersFrom(rounds[r], a))

Allocatees(record) == { record.allocations[i].allocatee : i \in DOMAIN record.allocations }

C27_Reconstructible ==
  \A r \in DOMAIN rounds :
    r + 1 \in DOMAIN rounds =>
      \A a \in Allocatees(rounds[r + 1]) :
        AsRat(VotesOf(rounds[r + 1], a)) = Reconstructed(r, a)


(***************************************************************************)
(* C28: tabulateSTV with one seat: in the first round in which a           *)
(* candidate's votes exceed half of the continuing (non-exhausted)         *)
(* ballots, that candidate is elected as the sole winner and tabulation    *)
(* stops; no elimination happens in or after that round.                   *)
(***************************************************************************)
ContinuingAt(r) == Len(ballots) - VotesOf(rounds[r], X)

HasMajorityAt(r, a) ==
  /\ a # X
  /\ IsListed(rounds[r], a)
  /\ 2 * VotesOf(rounds[r], a) > ContinuingAt(r)

C28_MajorityElected ==
  (engine = "whole" /\ seats = 1) =>
    \A r \in DOMAIN rounds :
      \A a \in 0..(Len(candidateNames) - 1) :
        HasMajorityAt(r, a) =>
          /\ rounds[r].electedThisRound = << a >>
          /\ rounds[r].eliminatedThisRound = << >>
          /\ r = Len(rounds)
          /\ winners = << a >>


(***************************************************************************)
(* C29: fill by default, both engines: when after a round's action the     *)
(* remaining active candidates are at least one and at most the unfilled   *)
(* seats, all of them are elected with roundElected the following round    *)
(* index, and they are appended to the winner list in descending order of  *)
(* their current votes.                                                    *)
(***************************************************************************)
\* the record of the round a step runs
RoundRun == rounds'[Len(rounds) + 1]
RoundRuns == pc = "loop" /\ Len(rounds') > Len(rounds)
\* the candidates still active after the round's action, and the open seats
RemainingAfter ==
  { n \in Range(candidateNames) :
      /\ candidateStatus[n] = "active"
      /\ candidateMap[n].index \notin
           Range(RoundRun.electedThisRound) \cup Range(RoundRun.eliminatedThisRound) }
UnfilledAfter == seats - Len(winners) - Len(RoundRun.electedThisRound)
\* the winners a step appends after those its round elected
AppendedByFill ==
  SubSeq(winners', Len(winners) + Len(RoundRun.electedThisRound) + 1, Len(winners'))

C29_FillByDefault ==
  [][ (RoundRuns /\ RemainingAfter # {} /\ Cardinality(RemainingAfter) <= UnfilledAfter) =>
        /\ \A n \in RemainingAfter :
             /\ candidateMap'[n].status = "elected"
             /\ candidateMap'[n].roundElected = roundNumber + 1
        /\ Range(AppendedByFill) = { candidateMap[n].index : n \in RemainingAfter }
        /\ Len(AppendedByFill) = Cardinality(RemainingAfter)
        /\ \A i, j \in DOMAIN AppendedByFill :
             i < j => RLe(AsRat(candidateMap'[candidateNames[AppendedByFill[j] + 1]].votes),
                          AsRat(candidateMap'[candidateNames[AppendedByFill[i] + 1]].votes))
    ]_vars


(***************************************************************************)
(* C30: whenever candidates are seated by the fill-by-default rule, in     *)
(* either engine, the trace ends with one additional round record that has *)
(* no transfers and lists those candidates as elected this round; every    *)
(* roundElected and roundEliminated of the summary is at most the number   *)
(* of round records.                                                       *)
(***************************************************************************)
DefaultSeated == { candidateVotes[i].candidate : i \in { j \in DOMAIN candidateVotes : SeatedByDefault(j) } }

C30_FinalRoundRecord ==
  Done =>
    /\ DefaultSeated # {} =>
         /\ Len(rounds) > 0
         /\ rounds[Len(rounds)].transfers = << >>
         /\ Range(rounds[Len(rounds)].electedThisRound) = DefaultSeated
    /\ \A i \in DOMAIN candidateVotes :
         /\ candidateVotes[i].roundElected <= Len(rounds)
         /\ candidateVotes[i].roundEliminated <= Len(rounds)


(***************************************************************************)
(* C31: whole-ballot engine: every candidate at or above quota at the      *)
(* start of a round is elected in that round while seats remain, and they  *)
(* enter the winner list in descending order of votes, candidates with     *)
(* equal votes in alphabetical order of name, whatever the order of the    *)
(* candidate list.                                                         *)
(***************************************************************************)
AtQuota ==
  { n \in Range(candidateNames) :
      candidateStatus[n] = "active" /\ candidateMap[n].votes >= quota }
\* n comes before m: more votes, or as many and the earlier name
Before(n, m) ==
  \/ candidateMap[n].votes > candidateMap[m].votes
  \/ candidateMap[n].votes = candidateMap[m].votes /\ NameRank[n] < NameRank[m]
ElectedInRound == [i \in DOMAIN RoundRun.electedThisRound |->
                     candidateNames[RoundRun.electedThisRound[i] + 1]]

C31_ElectionOrder ==
  [][ (engine = "whole" /\ RoundRuns /\ AtQuota # {}) =>
        /\ Len(ElectedInRound) = Min(Cardinality(AtQuota), seats - Len(winners))
        /\ Range(ElectedInRound) \subseteq AtQuota
        /\ SubSeq(winners', Len(winners) + 1, Len(winners) + Len(ElectedInRound))
             = RoundRun.electedThisRound
        /\ \A i, j \in DOMAIN ElectedInRound :
             i < j => Before(ElectedInRound[i], ElectedInRound[j])
        /\ \A n \in Range(ElectedInRound) : \A m \in AtQuota \ Range(ElectedInRound) :
             Before(n, m)
    ]_vars


(***************************************************************************)
(* C32: in a round of either engine in which no active candidate is at or  *)
(* above quota, exactly one candidate is eliminated: an active candidate   *)
(* whose votes are minimal among the active candidates, and among those    *)
(* holding the minimal count the one whose name is first; its pile is      *)
(* emptied and its votes are set to 0.                                     *)
(***************************************************************************)
ActiveNow == { n \in Range(candidateNames) : candidateStatus[n] = "active" }
VotesNow(n) == AsRat(candidateMap[n].votes)
NoneAtQuota == \A n \in ActiveNow : RLt(VotesNow(n), R(quota))
EliminatedInRound == [i \in DOMAIN RoundRun.eliminatedThisRound |->
                        candidateNames[RoundRun.eliminatedThisRound[i] + 1]]
PileEmptied(n) ==
  /\ candidateStatus'[n] = "eliminated"
  /\ candidateBallots'[n] = << >>
  /\ AsRat(candidateMap'[n].votes) = R(0)

C32_EliminateLowest ==
  [][ (RoundRuns /\ ActiveNow # {} /\ NoneAtQuota) =>
        /\ Len(EliminatedInRound) = 1
        /\ RoundRun.electedThisRound = << >>
        /\ LET e == EliminatedInRound[1]
           IN  /\ e \in ActiveNow
               /\ \A n \in ActiveNow : RLe(VotesNow(e), VotesNow(n))
               /\ \A n \in ActiveNow : VotesNow(n) = VotesNow(e) => NameRank[e] <= NameRank[n]
               /\ PileEmptied(e)
    ]_vars


\* C32 as the code has it: the candidate eliminated is the first by name
\* among the active candidates whose votes are less than 0.0001 above the
\* minimal count (in the whole-ballot engine, whose counts are integers: equal
\* to it); exactly one candidate is eliminated, nobody is elected, its pile
\* is emptied and its votes are set to 0.
LowestNow == CHOOSE m \in { VotesNow(n) : n \in ActiveNow } :
               \A n \in ActiveNow : RLe(m, VotesNow(n))
TiedLowest == { n \in ActiveNow : RLt(RAbs(RSub(VotesNow(n), LowestNow)), <<1, 10000>>) }

C32_EliminateLowestWithinTolerance ==
  [][ (RoundRuns /\ ActiveNow # {} /\ NoneAtQuota) =>
        /\ Len(EliminatedInRound) = 1
        /\ RoundRun.electedThisRound = << >>
        /\ LET e == EliminatedInRound[1]
           IN  /\ e \in TiedLowest
               /\ \A n \in TiedLowest : NameRank[e] <= NameRank[n]
               /\ (engine = "whole" => VotesNow(e) = LowestNow)
               /\ PileEmptied(e)
    ]_vars

\* the large contest: A, 1/10002 of a vote above B, was eliminated in round 2
C32_Witness ==
  /\ IsNear(10002) /\ Len(rounds) >= 2
  /\ rounds[2].eliminatedThisRound = << Idx("A") >>
  /\ RLt(VotesOf(rounds[2], Idx("B")), VotesOf(rounds[2], Idx("A")))
  /\ candidateBallots["A"] = << >>
  /\ candidateMap["A"].votes = R(0)


(***************************************************************************)
(* C33: in both engines every surplus or elimination transfer is credited  *)
(* to the first candidate after the ballot's current rank that is active   *)
(* at the moment of the transfer; nothing is credited to an eliminated     *)
(* candidate or to a candidate elected in an earlier round, and a ballot   *)
(* (or its transferred weight) goes to Exhausted only when no later rank   *)
(* on the ballot is an active candidate.                                   *)
(***************************************************************************)
\* the position of a name among those the round elects, 0 when it is not one
ElectedPosition(n) ==
  IF n \in Range(ElectedInRound)
  THEN CHOOSE i \in DOMAIN ElectedInRound : ElectedInRound[i] = n
  ELSE 0
\* n is active once the first i candidates of the round are elected and the
\* candidate the round eliminates is out
ActiveAtMoment(n, i) ==
  /\ n \in ActiveNow
  /\ n \notin { ElectedInRound[j] : j \in 1..i }
  /\ n \notin Range(EliminatedInRound)
\* the index (from 0) of the first rank after index p of ballot b that is
\* active at that moment, the length of the ballot when there is none
NextActiveIndex(b, p, i) ==
  LET r == ballots[b]
      later == { k \in (p + 1)..(Len(r) - 1) : ActiveAtMoment(r[k + 1], i) }
  IN  IF later = {} THEN Len(r) ELSE SetMin(later)
\* ballot b, at index p when the i-th candidate of the round transfers, ends
\* the round at index final by stops that each are the first active rank
RECURSIVE StopsAtFirstActive(_, _, _, _)
StopsAtFirstActive(b, p, i, final) ==
  LET k == NextActiveIndex(b, p, i)
  IN  \/ k = final
      \/ /\ k < Len(ballots[b])
         /\ ElectedPosition(ballots[b][k + 1]) > i
         /\ StopsAtFirstActive(b, k, ElectedPosition(ballots[b][k + 1]), final)
MovedInRound == { b \in DOMAIN ballots : ballotStates'[b].currentIndex # ballotStates[b].currentIndex }
\* the ballots of a pile the fractional surplus loop leaves where they are
LeftInSurplus ==
  { b \in DOMAIN ballots :
      /\ engine = "frac" /\ RoundRun.transfers # << >>
      /\ \E n \in Range(ElectedInRound) : b \in Range(candidateBallots[n])
      /\ b \notin MovedInRound }

SameElectionsAndCounts(out) ==
  /\ out.winners = winners
  /\ Len(out.rounds) = Len(rounds)
  /\ \A r \in DOMAIN rounds :
       /\ out.rounds[r].allocations = rounds[r].allocations
       /\ out.rounds[r].electedThisRound = rounds[r].electedThisRound
  /\ \A i \in DOMAIN candidateVotes :
       out.candidateVotes[i].roundElected = candidateVotes[i].roundElected

C34_BallotOrderWhole ==
  (Done /\ engine = "whole") =>
    \A p \in Permutations(DOMAIN ballots) :
      SameElectionsAndCounts(tabulateSTV(Permuted(ballots, p), seats, candidateNames))


(***************************************************************************)
(* C35: within every round record of either engine the transfer list is    *)
(* ordered by from-candidate index ascending and then by destination index *)
(* ascending, and every transfer carries its elimination or surplus tag.   *)
(* (The place of Exhausted among the destinations is left open here.)      *)
(***************************************************************************)
TransferBefore(a, b) ==
  \/ a.from < b.from
  \/ a.from = b.from /\ (a.to = X \/ b.to = X \/ a.to < b.to)
Tagged(record, tr) ==
  \/ tr.type = "surplus" /\ tr.from \in Range(record.electedThisRound)
  \/ tr.type = "elimination" /\ tr.from \in Range(record.eliminatedThisRound)

C35_TransferOrder ==
  \A r \in DOMAIN rounds :
    /\ \A i, j \in DOMAIN rounds[r].transfers :
         i < j => TransferBefore(rounds[r].transfers[i], rounds[r].transfers[j])
    /\ \A i \in DOMAIN rounds[r].transfers : Tagged(rounds[r], rounds[r].transfers[i])


ElectedAtQuota(n) ==
  LET c == candidateMap[n] IN
  /\ c.roundElected \in DOMAIN rounds
  /\ ~IsFillRecord(c.roundElected)
  /\ c.index \in Range(rounds[c.roundElected].electedThisRound)

SummaryTotal(c) == RAdd(AsRat(c.firstRoundVotes), AsRat(c.transferVotes))

SettledRound(c) ==
  IF c.roundEliminated \in DOMAIN rounds THEN c.roundEliminated
  ELSE IF /\ c.roundElected \in DOMAIN rounds
          /\ ~IsFillRecord(c.roundElected)
          /\ c.candidate \in Range(rounds[c.roundElected].electedThisRound)
       THEN c.roundElected
       ELSE NoRound

C38_SummaryMatchesRecord ==
  (Done /\ Len(rounds) >= 1) =>
    \A i \in DOMAIN candidateVotes :
      LET c == candidateVotes[i] IN
      /\ IsListed(rounds[1], c.candidate)
      /\ AsRat(c.firstRoundVotes) = AsRat(VotesOf(rounds[1], c.candidate))
      /\ SettledRound(c) # NoRound =>
           /\ IsListed(rounds[SettledRound(c)], c.candidate)
           /\ AsRat(VotesOf(rounds[SettledRound(c)], c.candidate)) = SummaryTotal(c)

====
